---- MODULE Spec2Model ----
(***************************************************************************)
(* A model of the build orchestration of next-swc (crates next-api,        *)
(* next-build and napi): project construction, route resolution, the       *)
(* endpoint calls, client reference chunking, the asset graph traversal    *)
(* and the next_build pipeline.                                            *)
(*                                                                         *)
(* Strings of the program are sequences of one-character strings, so that  *)
(* prefix tests, format! and path joins are computed as the code computes  *)
(* them.  Each component has its own specification (SpecProject,           *)
(* SpecRoutes, ...) over the variables of that component; the variables of *)
(* the other components stay at their idle value.                          *)
(***************************************************************************)
EXTENDS Integers, Sequences, FiniteSets, TLC

VARIABLES
    \* ProjectVc::new
    options,        \* the ProjectOptions given to ProjectVc::new
    separator,      \* std::path::MAIN_SEPARATOR of the platform
    projectPc,      \* "start" | "done"
    projectResult,  \* the value ProjectVc::new resolved to
    \* ProjectVc::entrypoints and get_pages_routes
    appEntrypoints, \* find_app_dir / get_entrypoints: None, or the app entries in order
    pageStructure,  \* the PagesStructure: its api and pages directories
    dirs,           \* every PagesDirectoryStructure: its items and children
    routesPc,       \* the position of ProjectVc::entrypoints
    queue,          \* the worklist of add_dir_to_routes
    pagesRoutes,    \* the IndexMap get_pages_routes builds
    routes,         \* the IndexMap ProjectVc::entrypoints builds
    mergeIdx,       \* the next entry of pagesRoutes the merge loop reads
    entrypointsResult, \* what ProjectVc::entrypoints resolved to
    \* the endpoints and endpoint_write_to_disk
    sourceVersion,  \* the number of source changes so far
    moduleIsEcmascript, \* whether the page loader entry module resolves to an
                    \* EcmascriptModuleAsset in the current sources
    calls,          \* the endpoint_write_to_disk calls made, with what each returned
    subscriptions,  \* the endpoint_changed_subscribe calls made
    \* compute_app_client_references_chunks
    crByEntry,      \* the client reference types each server entry imports
    crTypes,        \* app_client_reference_types, in the iteration order of the HashSet
    crPc,           \* the position of compute_app_client_references_chunks
    crPending,      \* the per-reference futures of try_join still running
    crComputed,     \* the (reference type, chunks) pairs of the futures that resolved
    crChunks,       \* app_client_references_chunks, the IndexMap collected after the join
    crFoldIdx,      \* the next entry the loop over app_client_references_chunks reads
    allChunks,      \* the caller's all_chunks
    crResult,       \* what compute_app_client_references_chunks returned
    \* emit_all_assets and all_assets_from_entries
    assetRefs,      \* for each asset, the primary assets of its references, in order
    entryChunks,    \* the chunks given to emit_all_assets
    assetsPc,       \* the position of emit_all_assets
    traversal,      \* the store of the graph traversal and its running visits
    allAssets,      \* what all_assets_from_entries returned
    completions,    \* the completion emit_all_assets made for each asset
    \* next_build
    buildOptions,   \* the BuildOptions and what the project holds
    buildPc,        \* the position of next_build
    failedAt,       \* the position at which next_build returned an error
    reported,       \* the sources whose issues handle_issues has reported
    fatalRaised,    \* the phase after discovery that first raised a fatal diagnostic
    manifests,      \* the manifest accumulators of next_build
    buildChunks,    \* all_chunks of next_build
    writes,         \* the file writes issued, each pending, ok or failed
    buildCompletions, \* completions: the writes joined into the result
    mfIdx           \* the next write_manifest call of next_build.rs:414-442

projectVars == <<options, separator, projectPc, projectResult>>

routeVars == <<appEntrypoints, pageStructure, dirs, routesPc, queue, pagesRoutes,
               routes, mergeIdx, entrypointsResult>>

endpointVars == <<sourceVersion, moduleIsEcmascript, calls, subscriptions>>

clientRefVars == <<crByEntry, crTypes, crPc, crPending, crComputed, crChunks, crFoldIdx, allChunks,
                   crResult>>

assetVars == <<assetRefs, entryChunks, assetsPc, traversal, allAssets, completions>>

buildVars == <<buildOptions, buildPc, failedAt, reported, fatalRaised, manifests,
               buildChunks, writes, buildCompletions, mfIdx>>

vars == <<projectVars, routeVars, endpointVars, clientRefVars, assetVars, buildVars>>

notProject == <<routeVars, endpointVars, clientRefVars, assetVars, buildVars>>

notRoutes == <<projectVars, endpointVars, clientRefVars, assetVars, buildVars>>

notEndpoint == <<projectVars, routeVars, clientRefVars, assetVars, buildVars>>

notClientRef == <<projectVars, routeVars, endpointVars, assetVars, buildVars>>

notAssets == <<projectVars, routeVars, endpointVars, clientRefVars, buildVars>>

notBuild == <<projectVars, routeVars, endpointVars, clientRefVars, assetVars>>

----------------------------------------------------------------------------
(* Strings and options *)

None == [some |-> FALSE]

Some(v) == [some |-> TRUE, val |-> v]

\* str::starts_with
StartsWith(s, p) ==
    /\ Len(p) <= Len(s)
    /\ SubSeq(s, 1, Len(p)) = p

\* str::strip_prefix: the rest of s after the prefix p, None when s does not
\* start with p.
StripPrefix(s, p) ==
    IF StartsWith(s, p) THEN Some(SubSeq(s, Len(p) + 1, Len(s))) ELSE None

\* str::replace(from, to) for a one-character pattern.
Replace(s, from, to) == [i \in 1..Len(s) |-> IF s[i] = from THEN to ELSE s[i]]

\* Option::unwrap_or
UnwrapOr(opt, default) == IF opt.some THEN opt.val ELSE default

RECURSIVE Concat(_)
\* The concatenation of a sequence of strings.
Concat(ss) == IF ss = <<>> THEN <<>> ELSE Head(ss) \o Concat(Tail(ss))

RECURSIVE SplitAt(_, _, _)
\* s split at every occurrence of the character c; cur is the piece being read.
SplitAt(s, c, cur) ==
    IF s = <<>> THEN <<cur>>
    ELSE IF Head(s) = c THEN <<cur>> \o SplitAt(Tail(s), c, <<>>)
    ELSE SplitAt(Tail(s), c, Append(cur, Head(s)))

Split(s, c) == SplitAt(s, c, <<>>)

RECURSIVE JoinWith(_, _)
\* The strings of ss joined with the string sep between them.
JoinWith(ss, sep) ==
    IF ss = <<>> THEN <<>>
    ELSE IF Len(ss) = 1 THEN Head(ss)
    ELSE Head(ss) \o sep \o JoinWith(Tail(ss), sep)

----------------------------------------------------------------------------
(* ProjectVc::new (next-api/src/project.rs) *)

MaxRootSegs == 2

MaxProjectSegs == 3

SegA == <<"a">>

SegB == <<"b">>

SegBC == <<"b", "c">>

SegC == <<"c">>

SegDotDot == <<".", ".">>

SegDot == <<".">>

\* The sequences over S of length lo..hi.
SeqsOf(S, lo, hi) == UNION {[1..n -> S] : n \in lo..hi}

RECURSIVE RenderPath(_, _)
\* The absolute path with the given segments, written with the separator sep.
RenderPath(segs, sep) ==
    IF segs = <<>> THEN <<>> ELSE <<sep>> \o Head(segs) \o RenderPath(Tail(segs), sep)

RootPaths(sep) == {RenderPath(segs, sep) : segs \in SeqsOf({SegA, SegB}, 1, MaxRootSegs)}

ProjectPaths(sep) ==
    {RenderPath(segs, sep) :
        segs \in SeqsOf({SegA, SegB, SegBC, SegC, SegDotDot}, 1, MaxProjectSegs)}

RECURSIVE NormalizeSegments(_, _)
\* turbo_tasks_fs normalize_path on the split segments: "." and "" are
\* dropped, ".." pops the last kept segment and fails when there is none.
NormalizeSegments(segs, kept) ==
    IF segs = <<>> THEN Some(kept)
    ELSE IF Head(segs) \in {SegDot, <<>>} THEN NormalizeSegments(Tail(segs), kept)
    ELSE IF Head(segs) = SegDotDot
    THEN IF kept = <<>> THEN None
         ELSE NormalizeSegments(Tail(segs), SubSeq(kept, 1, Len(kept) - 1))
    ELSE NormalizeSegments(Tail(segs), Append(kept, Head(segs)))

NormalizePath(str) ==
    LET n == NormalizeSegments(Split(str, "/"), <<>>)
    IN  IF n.some THEN Some(JoinWith(n.val, <<"/">>)) ELSE None

\* FileSystemPathVc::join as called at project.rs:84: the joined path
\* normalized, None when it leaves the filesystem root.
JoinPath(fs_path, join) ==
    IF fs_path = <<>> THEN NormalizePath(join)
    ELSE IF join = <<>> THEN NormalizePath(fs_path)
    ELSE NormalizePath(fs_path \o <<"/">> \o join)

\* The body of ProjectVc::new up to the join: the project path relative to
\* the root, None when strip_prefix(&options.root_path) is None (the unwrap
\* at project.rs:79 then panics).
ProjectRelative(opts, sep) ==
    LET stripped == StripPrefix(opts.project_path, opts.root_path)
    IN  IF ~stripped.some THEN None
        ELSE Some(Replace(UnwrapOr(StripPrefix(stripped.val, <<sep>>), stripped.val),
                          sep, "/"))

\* What ProjectVc::new resolves to.
ProjectNewResult(opts, sep) ==
    LET rel == ProjectRelative(opts, sep)
    IN  IF ~rel.some THEN [outcome |-> "panic"]
        ELSE LET joined == JoinPath(<<>>, rel.val)
             IN  IF ~joined.some THEN [outcome |-> "err"]
                 ELSE [outcome |-> "ok",
                       fs_root |-> opts.root_path,
                       watching |-> opts.watch,
                       root_path |-> <<>>,
                       project_path |-> joined.val]

ProjectIdle ==
    /\ options = None
    /\ separator = "/"
    /\ projectPc = "idle"
    /\ projectResult = None

ProjectInit ==
    /\ separator \in {"/", "\\"}
    /\ \E root \in RootPaths(separator), project \in ProjectPaths(separator),
          watch \in BOOLEAN :
          options = [root_path |-> root, project_path |-> project, watch |-> watch]
    /\ projectPc = "start"
    /\ projectResult = None

ProjectNew ==
    /\ projectPc = "start"
    /\ projectResult' = ProjectNewResult(options, separator)
    /\ projectPc' = "done"
    /\ UNCHANGED <<options, separator>>
    /\ UNCHANGED notProject

----------------------------------------------------------------------------
(* IndexMap: a sequence of entries [key, value] with unique keys, in
   insertion order *)

RECURSIVE IndexOfFrom(_, _, _)
IndexOfFrom(m, k, i) ==
    IF i > Len(m) THEN 0
    ELSE IF m[i].key = k THEN i
    ELSE IndexOfFrom(m, k, i + 1)

\* IndexMap::get_index_of: the position of key k, 0 when absent.
IndexOf(m, k) == IndexOfFrom(m, k, 1)

MapKeys(m) == {m[i].key : i \in 1..Len(m)}

MapGet(m, k) == m[IndexOf(m, k)].value

\* IndexMap::insert: the value of an existing key is replaced in place, a
\* new key is appended.
MapInsert(m, k, v) ==
    IF IndexOf(m, k) = 0 THEN Append(m, [key |-> k, value |-> v])
    ELSE [m EXCEPT ![IndexOf(m, k)].value = v]

RECURSIVE MapExtend(_, _)
\* IndexMap::extend: insert of every entry in turn.
MapExtend(m, entries) ==
    IF entries = <<>> THEN m
    ELSE MapExtend(MapInsert(m, Head(entries).key, Head(entries).value), Tail(entries))

----------------------------------------------------------------------------
(* get_pages_routes (next-api/src/pages.rs) and ProjectVc::entrypoints
   (next-api/src/project.rs) *)

MaxLeaves == 3

MaxAppEntries == 2

StrFoo == <<"f", "o", "o">>

StrFooBar == <<"f", "o", "o", "/", "b", "a", "r">>

StrFooIndex == <<"f", "o", "o", "/", "i", "n", "d", "e", "x">>

StrIndex == <<"i", "n", "d", "e", "x">>

StrApi == <<"a", "p", "i">>

StrApiIndex == <<"a", "p", "i", "/", "i", "n", "d", "e", "x">>

StrApiHello == <<"a", "p", "i", "/", "h", "e", "l", "l", "o">>

StrBlog == <<"b", "l", "o", "g">>

\* A PagesStructureItem: its path in the router filesystem, its source file
\* and its original path.
Item(router, project, original) ==
    [next_router_path |-> router, project_path |-> project, original_path |-> original]

\* The leaf files a pages root, its foo directory and the api directory can
\* hold.
PagesRootItems ==
    {Item(<<>>, "pages/index.js", StrIndex),
     Item(StrFoo, "pages/foo.js", StrFoo),
     Item(StrApi, "pages/api.js", StrApi)}

PagesFooItems ==
    {Item(StrFoo, "pages/foo/index.js", StrFooIndex),
     Item(StrFooBar, "pages/foo/bar.js", StrFooBar)}

ApiItems ==
    {Item(StrApi, "pages/api/index.js", StrApiIndex),
     Item(StrApiHello, "pages/api/hello.js", StrApiHello)}

\* The sequences without repetition of at most n elements of S.
OrderedSubsets(S, n) ==
    {q \in SeqsOf(S, 0, n) : \A i, j \in 1..Len(q) : i # j => q[i] # q[j]}

RECURSIVE SeqOfSet(_)
\* The elements of a finite set in some fixed order.
SeqOfSet(S) ==
    IF S = {} THEN <<>>
    ELSE LET x == CHOOSE y \in S : TRUE IN <<x>> \o SeqOfSet(S \ {x})

\* The pathnames the app directory can define.
AppPathnames == {<<"/">> \o StrFoo, <<"/">>, <<"/">> \o StrApiHello, <<"/">> \o StrBlog}

\* app_entry_point_to_route: the route of an app entrypoint.
AppEntryPointToRoute(entrypoint) == [kind |-> "AppPage", entrypoint |-> entrypoint]

\* format!("/{}", path)
SlashPath(path) == <<"/">> \o path

ApiEndpoint(pathname, original_name, path) ==
    [kind |-> "ApiEndpoint", pathname |-> pathname, original_name |-> original_name,
     path |-> path]

PageHtmlEndpoint(pathname, original_name, path) ==
    [kind |-> "PageHtmlEndpoint", pathname |-> pathname,
     original_name |-> original_name, path |-> path]

PageDataEndpoint(pathname, original_name, path) ==
    [kind |-> "PageDataEndpoint", pathname |-> pathname,
     original_name |-> original_name, path |-> path]

\* The make_route closure given for the api directory.
MakeApiRoute(pathname, original_name, path) ==
    [kind |-> "PageApi", endpoint |-> ApiEndpoint(pathname, original_name, path)]

\* The make_route closure given for the pages directory.
MakePageRoute(pathname, original_name, path) ==
    [kind |-> "Page",
     html_endpoint |-> PageHtmlEndpoint(pathname, original_name, path),
     data_endpoint |-> PageDataEndpoint(pathname, original_name, path)]

MakeRoute(tree, pathname, original_name, path) ==
    IF tree = "api" THEN MakeApiRoute(pathname, original_name, path)
    ELSE MakePageRoute(pathname, original_name, path)

RouteConflict == [kind |-> "Conflict"]

\* The body of the loop over the items of a directory: the route of one
\* item inserted under its pathname.
AddItem(m, tree, item) ==
    MapInsert(m, SlashPath(item.next_router_path),
              MakeRoute(tree, SlashPath(item.next_router_path),
                        SlashPath(item.original_path), item.project_path))

RECURSIVE AddItems(_, _, _)
AddItems(m, tree, items) ==
    IF items = <<>> THEN m
    ELSE AddItems(AddItem(m, tree, Head(items)), tree, Tail(items))

\* The merge with the occupied arm storing the page route over the app route.
MergeEntryOverwrite(m, pathname, page_route) == MapInsert(m, pathname, page_route)

\* The merge with the occupied arm keeping the conflict and nothing else.
MergeEntryConflictOnly(m, pathname, page_route) ==
    IF IndexOf(m, pathname) # 0 THEN <<[key |-> pathname, value |-> RouteConflict]>>
    ELSE MapInsert(m, pathname, page_route)

\* The merge that stores the conflict in the vacant arm too.
MergeEntryAlwaysConflict(m, pathname, page_route) == MapInsert(m, pathname, RouteConflict)

\* The match on routes.entry(pathname) of the merge loop.
MergeEntry(m, pathname, page_route) ==
    IF IndexOf(m, pathname) # 0 THEN MapInsert(m, pathname, RouteConflict)
    ELSE MapInsert(m, pathname, page_route)

RoutesIdle ==
    /\ appEntrypoints = None
    /\ pageStructure = None
    /\ dirs = <<>>
    /\ routesPc = "idle"
    /\ queue = <<>>
    /\ pagesRoutes = <<>>
    /\ routes = <<>>
    /\ mergeIdx = 0
    /\ entrypointsResult = None

\* The directories are "pages", its child "pages/foo" and "api"; a project
\* has any of them, with at most MaxLeaves leaf files in all.
RoutesInit ==
    /\ \E hasPages, hasFoo, hasApi \in BOOLEAN :
       \E rootItems \in OrderedSubsets(PagesRootItems, MaxLeaves),
          fooItems \in OrderedSubsets(PagesFooItems, MaxLeaves),
          apiItems \in OrderedSubsets(ApiItems, MaxLeaves) :
          /\ Len(rootItems) + Len(fooItems) + Len(apiItems) <= MaxLeaves
          /\ ~hasPages => (rootItems = <<>> /\ ~hasFoo)
          /\ ~hasFoo => fooItems = <<>>
          /\ ~hasApi => apiItems = <<>>
          /\ pageStructure = [api |-> IF hasApi THEN Some("api") ELSE None,
                              pages |-> IF hasPages THEN Some("pages") ELSE None]
          /\ dirs = [d \in {"pages", "pages/foo", "api"} |->
                        CASE d = "pages" ->
                                [items |-> rootItems,
                                 children |-> IF hasFoo THEN <<"pages/foo">> ELSE <<>>]
                          [] d = "pages/foo" -> [items |-> fooItems, children |-> <<>>]
                          [] OTHER -> [items |-> apiItems, children |-> <<>>]]
    /\ \E hasApp \in BOOLEAN :
       \E names \in OrderedSubsets(AppPathnames, MaxAppEntries) :
          /\ ~hasApp => names = <<>>
          /\ appEntrypoints =
                IF hasApp
                THEN Some([i \in 1..Len(names) |-> [key |-> names[i], value |-> names[i]]])
                ELSE None
    /\ routesPc = "start"
    /\ queue = <<>>
    /\ pagesRoutes = <<>>
    /\ routes = <<>>
    /\ mergeIdx = 1
    /\ entrypointsResult = None

\* project.rs:99-115: the app entries, each turned into its route, extend
\* the empty table.
EntrypointsApp ==
    /\ routesPc = "start"
    /\ routes' = IF appEntrypoints.some
                 THEN MapExtend(<<>>,
                        [i \in 1..Len(appEntrypoints.val) |->
                            [key |-> appEntrypoints.val[i].key,
                             value |-> AppEntryPointToRoute(appEntrypoints.val[i].value)]])
                 ELSE <<>>
    /\ routesPc' = "api"
    /\ UNCHANGED <<appEntrypoints, pageStructure, dirs, queue, pagesRoutes, mergeIdx,
                   entrypointsResult>>
    /\ UNCHANGED notRoutes

\* pages.rs:65-72 and 73-88: add_dir_to_routes is called for the api
\* directory, then for the pages directory, when the structure has it.
AddDirBegin ==
    /\ routesPc \in {"api", "pages"}
    /\ IF pageStructure[routesPc].some
       THEN /\ queue' = <<pageStructure[routesPc].val>>
            /\ routesPc' = IF routesPc = "api" THEN "api_loop" ELSE "pages_loop"
       ELSE /\ queue' = <<>>
            /\ routesPc' = IF routesPc = "api" THEN "pages" ELSE "merge"
    /\ UNCHANGED <<appEntrypoints, pageStructure, dirs, pagesRoutes, routes, mergeIdx,
                   entrypointsResult>>
    /\ UNCHANGED notRoutes

\* pages.rs:40-62: one turn of while let Some(dir) = queue.pop(): every item
\* of the directory is inserted, every child is pushed.
AddDirStep ==
    /\ routesPc \in {"api_loop", "pages_loop"}
    /\ queue # <<>>
    /\ LET dir == dirs[queue[Len(queue)]]
           tree == IF routesPc = "api_loop" THEN "api" ELSE "pages"
       IN  /\ pagesRoutes' = AddItems(pagesRoutes, tree, dir.items)
           /\ queue' = SubSeq(queue, 1, Len(queue) - 1) \o dir.children
    /\ UNCHANGED <<appEntrypoints, pageStructure, dirs, routesPc, routes, mergeIdx,
                   entrypointsResult>>
    /\ UNCHANGED notRoutes

\* pages.rs:63: the worklist is empty, add_dir_to_routes returns Ok.
AddDirEnd ==
    /\ routesPc \in {"api_loop", "pages_loop"}
    /\ queue = <<>>
    /\ routesPc' = IF routesPc = "api_loop" THEN "pages" ELSE "merge"
    /\ UNCHANGED <<appEntrypoints, pageStructure, dirs, queue, pagesRoutes, routes,
                   mergeIdx, entrypointsResult>>
    /\ UNCHANGED notRoutes

\* project.rs:120-129: one turn of the loop over the pages routes.
MergeStep ==
    /\ routesPc = "merge"
    /\ mergeIdx <= Len(pagesRoutes)
    /\ routes' = MergeEntry(routes, pagesRoutes[mergeIdx].key, pagesRoutes[mergeIdx].value)
    /\ mergeIdx' = mergeIdx + 1
    /\ UNCHANGED <<appEntrypoints, pageStructure, dirs, routesPc, queue, pagesRoutes,
                   entrypointsResult>>
    /\ UNCHANGED notRoutes

\* project.rs:131-135: the Entrypoints value is returned.
EntrypointsReturn ==
    /\ routesPc = "merge"
    /\ mergeIdx > Len(pagesRoutes)
    /\ entrypointsResult' = [outcome |-> "ok", routes |-> routes, middleware |-> None]
    /\ routesPc' = "done"
    /\ UNCHANGED <<appEntrypoints, pageStructure, dirs, queue, pagesRoutes, routes,
                   mergeIdx>>
    /\ UNCHANGED notRoutes

\* An await on the filesystem scan (find_app_dir, get_entrypoints, a
\* directory of the pages structure) resolves to an error, which ? returns.
ScanFails ==
    /\ \/ routesPc \in {"start", "api", "pages"}
       \/ routesPc \in {"api_loop", "pages_loop"} /\ queue # <<>>
    /\ entrypointsResult' = [outcome |-> "err"]
    /\ routesPc' = "failed"
    /\ UNCHANGED <<appEntrypoints, pageStructure, dirs, queue, pagesRoutes, routes,
                   mergeIdx>>
    /\ UNCHANGED notRoutes

----------------------------------------------------------------------------
(* The endpoints (next-api/src/pages.rs) and endpoint_write_to_disk
   (napi/src/next_api/endpoint.rs) *)

MaxCalls == 2

MaxChanges == 1

MaxSubscriptions == 1

\* The endpoints of the routes "/" (a page) and "/api/hello" (an API route).
Endpoints ==
    {PageHtmlEndpoint(<<"/">>, <<"/">> \o StrIndex, "pages/index.js"),
     PageDataEndpoint(<<"/">>, <<"/">> \o StrIndex, "pages/index.js"),
     ApiEndpoint(<<"/">> \o StrApiHello, <<"/">> \o StrApiHello, "pages/api/hello.js")}

\* PageHtmlEndpoint::write_to_disk: bail! when the client module is no
\* ECMAScript module asset, else the chunk group is requested and todo!()
\* panics.
PageHtmlWriteToDisk(endpoint, isEcmascript) ==
    IF ~isEcmascript
    THEN [outcome |-> "err", error |-> "expected an ECMAScript module asset"]
    ELSE [outcome |-> "panic", error |-> "not yet implemented"]

\* PageDataEndpoint::write_to_disk: todo!()
PageDataWriteToDisk(endpoint) == [outcome |-> "panic", error |-> "not yet implemented"]

\* ApiEndpoint::write_to_disk: todo!()
ApiWriteToDisk(endpoint) == [outcome |-> "panic", error |-> "not yet implemented"]

\* The dispatch of Endpoint::write_to_disk over the variants.
WriteToDisk(endpoint, isEcmascript) ==
    CASE endpoint.kind = "PageHtmlEndpoint" -> PageHtmlWriteToDisk(endpoint, isEcmascript)
      [] endpoint.kind = "PageDataEndpoint" -> PageDataWriteToDisk(endpoint)
      [] OTHER -> ApiWriteToDisk(endpoint)

\* From<&WrittenEndpoint> for NapiWrittenEndpoint
NapiWrittenEndpoint(written) ==
    [server_entry_path |-> written.server_entry_path,
     server_paths |-> written.server_paths,
     client_paths |-> written.client_paths]

\* endpoint_write_to_disk: the write is awaited (run_once, strongly
\* consistent) and ? passes its failure on; a WrittenEndpoint is converted.
EndpointWriteToDiskResult(endpoint, isEcmascript) ==
    LET written == WriteToDisk(endpoint, isEcmascript)
    IN  IF written.outcome = "ok"
        THEN [outcome |-> "ok", written |-> NapiWrittenEndpoint(written.value)]
        ELSE written

\* The computations write_to_disk has called and not awaited when its body
\* ends: PageHtmlEndpoint::write_to_disk awaits the resolution of the client
\* module, then calls as_root_chunk and evaluated_chunk_group before todo!().
CalledNotAwaited(endpoint, isEcmascript) ==
    IF endpoint.kind = "PageHtmlEndpoint" /\ isEcmascript
    THEN {"as_root_chunk", "evaluated_chunk_group"}
    ELSE {}

\* The read of the output of write_to_disk without strongly_consistent():
\* it is there as soon as the body of write_to_disk has ended.
OutputAvailable(call) == TRUE

\* .strongly_consistent().await: the output of write_to_disk is read when no
\* computation below it is outstanding.
StronglyConsistentAvailable(call) == call.outstanding = {}

\* Endpoint::changed: todo!() in the three variants.
Changed(endpoint) == [outcome |-> "panic", error |-> "not yet implemented"]

EndpointIdle ==
    /\ sourceVersion = 0
    /\ moduleIsEcmascript = FALSE
    /\ calls = <<>>
    /\ subscriptions = <<>>

EndpointInit ==
    /\ sourceVersion = 0
    /\ moduleIsEcmascript \in BOOLEAN
    /\ calls = <<>>
    /\ subscriptions = <<>>

\* The host calls endpoint_write_to_disk on an endpoint: run_once runs
\* write_to_disk, whose body ends with its result and with the computations
\* it called outstanding.
EndpointWriteToDisk ==
    /\ Len(calls) < MaxCalls
    /\ \E endpoint \in Endpoints :
          calls' = Append(calls,
                          [endpoint |-> endpoint, version |-> sourceVersion,
                           result |-> EndpointWriteToDiskResult(endpoint, moduleIsEcmascript),
                           outstanding |-> CalledNotAwaited(endpoint, moduleIsEcmascript),
                           returned |-> FALSE])
    /\ UNCHANGED <<sourceVersion, moduleIsEcmascript, subscriptions>>
    /\ UNCHANGED notEndpoint

\* A computation that write_to_disk called settles.
ComputationSettles ==
    /\ \E i \in 1..Len(calls) : \E c \in calls[i].outstanding :
          calls' = [calls EXCEPT ![i].outstanding = @ \ {c}]
    /\ UNCHANGED <<sourceVersion, moduleIsEcmascript, subscriptions>>
    /\ UNCHANGED notEndpoint

\* endpoint.rs:29-32: the strongly consistent read resolves and the call
\* returns to the host.
EndpointWriteToDiskReturns ==
    /\ \E i \in 1..Len(calls) :
          /\ ~calls[i].returned
          /\ StronglyConsistentAvailable(calls[i])
          /\ calls' = [calls EXCEPT ![i].returned = TRUE]
    /\ UNCHANGED <<sourceVersion, moduleIsEcmascript, subscriptions>>
    /\ UNCHANGED notEndpoint

\* endpoint.rs:35-54: the host subscribes to the changes of an endpoint; the
\* root task awaits endpoint.changed(), which panics: no change is ever
\* notified to the callback.
EndpointChangedSubscribe ==
    /\ Len(subscriptions) < MaxSubscriptions
    /\ \E endpoint \in Endpoints :
          subscriptions' = Append(subscriptions,
                                  [endpoint |-> endpoint, version |-> sourceVersion,
                                   result |-> Changed(endpoint), notifications |-> 0])
    /\ UNCHANGED <<sourceVersion, moduleIsEcmascript, calls>>
    /\ UNCHANGED notEndpoint

\* A source file of the project changes.  No subscription depends on it:
\* changed() has read nothing.
SourceChange ==
    /\ sourceVersion < MaxChanges
    /\ sourceVersion' = sourceVersion + 1
    /\ moduleIsEcmascript' \in BOOLEAN
    /\ UNCHANGED <<calls, subscriptions>>
    /\ UNCHANGED notEndpoint

----------------------------------------------------------------------------
(* compute_app_client_references_chunks
   (next-build/src/next_app/app_client_reference.rs) *)

MaxRefs == 3

MaxServerEntries == 2

MaxRefsOfEntry == 2

\* ClientReferenceType::EcmascriptClientReference
EcmascriptClientReference(client_module, ssr_module) ==
    [kind |-> "EcmascriptClientReference", client_module |-> client_module,
     ssr_module |-> ssr_module]

\* ClientReferenceType::CssClientReference
CssClientReference(client_module) ==
    [kind |-> "CssClientReference", client_module |-> client_module]

\* The client reference types of the application: two components, one of
\* which imports a library shared with other chunk groups, and two
\* stylesheets.
ClientReferenceTypes ==
    {EcmascriptClientReference("button.client", "button.ssr"),
     EcmascriptClientReference("menu+lib.client", "menu+lib.ssr"),
     CssClientReference("theme.css"),
     CssClientReference("reset.css")}

\* module.as_root_chunk(chunking_context)
AsRootChunk(module, context) == [context |-> context, entry |-> module]

\* The modules whose chunk group holds a second chunk, shared by the chunk
\* groups of the context.
ImportsSharedLibrary(module) == module \in {"menu+lib.client", "menu+lib.ssr", "app/page.rsc"}

\* chunking_context.chunk_group(entry_chunk): the output assets of the
\* group, the chunk of the entry first.
ChunkGroup(context, entry_chunk) ==
    <<[context |-> context, chunk |-> entry_chunk.entry]>>
        \o (IF ImportsSharedLibrary(entry_chunk.entry)
            THEN <<[context |-> context, chunk |-> "lib"]>>
            ELSE <<>>)

\* OutputAssetsVc::empty()
EmptyOutputAssets == <<>>

\* The per-reference computation with a CSS reference chunked for SSR too.
ClientReferenceChunksCssWithSsr(ty) ==
    [client_chunks |-> ChunkGroup("client", AsRootChunk(ty.client_module, "client")),
     ssr_chunks |-> ChunkGroup("ssr", AsRootChunk(ty.client_module, "ssr"))]

\* The match on the reference type inside the mapped future: the
\* ClientReferenceChunks of one reference type.
ClientReferenceChunksOf(ty) ==
    IF ty.kind = "EcmascriptClientReference"
    THEN [client_chunks |-> ChunkGroup("client", AsRootChunk(ty.client_module, "client")),
          ssr_chunks |-> ChunkGroup("ssr", AsRootChunk(ty.ssr_module, "ssr"))]
    ELSE [client_chunks |-> ChunkGroup("client", AsRootChunk(ty.client_module, "client")),
          ssr_chunks |-> EmptyOutputAssets]

\* A loop body that appends the client chunks only.
FoldedChunksClientOnly(ty, chunks) == chunks.client_chunks

\* The body of the loop over app_client_references_chunks: what one entry
\* appends to all_chunks.
FoldedChunks(ty, chunks) ==
    IF ty.kind = "EcmascriptClientReference"
    THEN chunks.client_chunks \o chunks.ssr_chunks
    ELSE chunks.client_chunks

\* The chunks a page entry has put into all_chunks before the call.
PageChunk == [context |-> "ssr", chunk |-> "pages/index"]

\* The reference types of every server entry, one after the other, without
\* the collection into a set.
ReferenceTypesFlattened(by_entry) ==
    LET RECURSIVE flatten(_)
        flatten(q) == IF q = <<>> THEN <<>> ELSE SeqOfSet(Head(q)) \o flatten(Tail(q))
    IN  {flatten(by_entry)}

\* next_build.rs:181-193: the client references of all server entries are
\* collected into a HashSet of reference types; the result is the orders in
\* which the set can be iterated.
ReferenceTypesDeduped(by_entry) ==
    LET tys == UNION {by_entry[i] : i \in 1..Len(by_entry)}
    IN  {q \in OrderedSubsets(tys, Cardinality(tys)) : Len(q) = Cardinality(tys)}

ClientRefIdle ==
    /\ crByEntry = <<>>
    /\ crTypes = <<>>
    /\ crPc = "idle"
    /\ crPending = {}
    /\ crComputed = {}
    /\ crChunks = <<>>
    /\ crFoldIdx = 1
    /\ allChunks = <<>>
    /\ crResult = None

ClientRefInit ==
    /\ \E n \in 1..MaxServerEntries :
          /\ crByEntry \in [1..n -> {tys \in SUBSET ClientReferenceTypes :
                                        Cardinality(tys) <= MaxRefsOfEntry}]
          /\ Cardinality(UNION {crByEntry[i] : i \in 1..n}) <= MaxRefs
    /\ crTypes = <<>>
    /\ crPc = "collect"
    /\ crPending = {}
    /\ crComputed = {}
    /\ crChunks = <<>>
    /\ crFoldIdx = 1
    /\ allChunks \in {<<>>, <<PageChunk>>}
    /\ crResult = None

\* next_build.rs:172-193: the reference types of the server entries are
\* collected into the set handed to compute_app_client_references_chunks.
ClientRefCollectTypes ==
    /\ crPc = "collect"
    /\ crTypes' \in ReferenceTypesDeduped(crByEntry)
    /\ crPc' = "start"
    /\ UNCHANGED <<crByEntry, crPending, crComputed, crChunks, crFoldIdx, allChunks, crResult>>
    /\ UNCHANGED notClientRef

\* app_client_reference.rs:27-59: one future per reference type is handed
\* to try_join.
ClientRefSpawn ==
    /\ crPc = "start"
    /\ crPending' = {crTypes[i] : i \in 1..Len(crTypes)}
    /\ crPc' = "join"
    /\ UNCHANGED <<crByEntry, crTypes, crComputed, crChunks, crFoldIdx, allChunks, crResult>>
    /\ UNCHANGED notClientRef

\* The future of one reference type appending its chunks to all_chunks
\* itself when it resolves.
ClientRefComputeAppends ==
    /\ crPc = "join"
    /\ \E ty \in crPending :
          /\ crPending' = crPending \ {ty}
          /\ crComputed' = crComputed \cup {[key |-> ty, value |-> ClientReferenceChunksOf(ty)]}
          /\ allChunks' = allChunks \o FoldedChunks(ty, ClientReferenceChunksOf(ty))
    /\ UNCHANGED <<crByEntry, crTypes, crPc, crChunks, crFoldIdx, crResult>>
    /\ UNCHANGED notClientRef

\* app_client_reference.rs:29-58: the future of one reference type resolves
\* to its (type, ClientReferenceChunks) pair.
ClientRefCompute ==
    /\ crPc = "join"
    /\ \E ty \in crPending :
          /\ crPending' = crPending \ {ty}
          /\ crComputed' = crComputed \cup {[key |-> ty, value |-> ClientReferenceChunksOf(ty)]}
    /\ UNCHANGED <<crByEntry, crTypes, crPc, crChunks, crFoldIdx, allChunks, crResult>>
    /\ UNCHANGED notClientRef

\* app_client_reference.rs:34, 47: the await of a reference fails; try_join
\* and ? return the error.
ClientRefComputeFails ==
    /\ crPc = "join"
    /\ crPending # {}
    /\ crPc' = "failed"
    /\ crResult' = [outcome |-> "err"]
    /\ UNCHANGED <<crByEntry, crTypes, crPending, crComputed, crChunks, crFoldIdx, allChunks>>
    /\ UNCHANGED notClientRef

\* app_client_reference.rs:59-62: every future has resolved; the pairs are
\* collected, in the order of the iterator, into the IndexMap.
ClientRefJoin ==
    /\ crPc = "join"
    /\ crPending = {}
    /\ crChunks' = MapExtend(<<>>,
                     [i \in 1..Len(crTypes) |->
                        CHOOSE e \in crComputed : e.key = crTypes[i]])
    /\ crPc' = "fold"
    /\ UNCHANGED <<crByEntry, crTypes, crPending, crComputed, crFoldIdx, allChunks, crResult>>
    /\ UNCHANGED notClientRef

\* app_client_reference.rs:64-77: one turn of the loop that extends
\* all_chunks.
ClientRefFold ==
    /\ crPc = "fold"
    /\ crFoldIdx <= Len(crChunks)
    /\ allChunks' = allChunks \o FoldedChunks(crChunks[crFoldIdx].key, crChunks[crFoldIdx].value)
    /\ crFoldIdx' = crFoldIdx + 1
    /\ UNCHANGED <<crByEntry, crTypes, crPc, crPending, crComputed, crChunks, crResult>>
    /\ UNCHANGED notClientRef

\* app_client_reference.rs:67, 68, 73: the await of a chunk group fails and
\* ? returns the error.
ClientRefFoldFails ==
    /\ crPc = "fold"
    /\ crFoldIdx <= Len(crChunks)
    /\ crPc' = "failed"
    /\ crResult' = [outcome |-> "err"]
    /\ UNCHANGED <<crByEntry, crTypes, crPending, crComputed, crChunks, crFoldIdx, allChunks>>
    /\ UNCHANGED notClientRef

\* app_client_reference.rs:79: Ok(app_client_references_chunks)
ClientRefReturn ==
    /\ crPc = "fold"
    /\ crFoldIdx > Len(crChunks)
    /\ crResult' = [outcome |-> "ok", value |-> crChunks]
    /\ crPc' = "done"
    /\ UNCHANGED <<crByEntry, crTypes, crPending, crComputed, crChunks, crFoldIdx, allChunks>>
    /\ UNCHANGED notClientRef

----------------------------------------------------------------------------
(* emit_all_assets and all_assets_from_entries
   (next-build/src/next_build.rs) *)

MaxEdges == 3

MaxEntryChunks == 3

\* A FileSystemPath: a filesystem and a path inside it.
FsPath(fs, path) == [fs |-> fs, path |-> path]

\* node_fs.root().join(".next")
NodeRoot == FsPath("node", <<".", "n", "e", "x", "t">>)

\* client_fs.root().join(".next")
ClientRoot == FsPath("client", <<".", "n", "e", "x", "t">>)

\* client_root.join("_next")
ClientRelativePath == FsPath("client", <<".", "n", "e", "x", "t", "/", "_", "n", "e", "x", "t">>)

\* An output asset: the chunking context that made it, or "static" for a
\* file that no chunking context made, and its name.
OutputAsset(context, chunk) == [context |-> context, chunk |-> chunk]

ServerJs == OutputAsset("ssr", "server.js")

ClientJs == OutputAsset("client", "client.js")

StyleCss == OutputAsset("client", "style.css")

ImagePng == OutputAsset("static", "image.png")

\* The output assets of the traversal on its own: two chunks, a stylesheet
\* and an image.
Assets == {ServerJs, ClientJs, StyleCss, ImagePng}

\* The chunks: the assets a chunking step hands to all_chunks.
Chunks == {ServerJs, ClientJs}

\* Every output asset there can be.
OutputAssets ==
    [context : {"client", "ssr", "rsc", "static"},
     chunk : {"server.js", "client.js", "style.css", "image.png", "lib", "pages/_app",
              "pages/index", "app/page.rsc", "menu+lib.client", "menu+lib.ssr",
              "theme.css"}]

\* asset.ident().path(): the chunks of the server contexts are below the
\* node root, those of the client context below the client-relative path;
\* a static file is next to the client-relative directory, not inside it.
AssetPath(asset) ==
    CASE asset.context \in {"ssr", "rsc"} ->
            FsPath("node", NodeRoot.path \o <<"/", asset.context, "/", asset.chunk>>)
      [] asset.context = "client" ->
            FsPath("client", ClientRelativePath.path \o <<"/", asset.chunk>>)
      [] OTHER -> FsPath("client", ClientRelativePath.path \o <<asset.chunk>>)

\* The references an asset can have.
CandidateEdges ==
    {<<ServerJs, ClientJs>>, <<ServerJs, StyleCss>>, <<ServerJs, ImagePng>>,
     <<ClientJs, ServerJs>>, <<ClientJs, StyleCss>>, <<ClientJs, ImagePng>>,
     <<StyleCss, ImagePng>>, <<StyleCss, StyleCss>>, <<StyleCss, ServerJs>>,
     <<ImagePng, StyleCss>>}

\* FileSystemPath::is_inside: on the same filesystem, below the context
\* directory.
IsInside(path, context) ==
    /\ path.fs = context.fs
    /\ StartsWith(path.path, context.path)
    /\ \/ context.path = <<>>
       \/ /\ Len(path.path) > Len(context.path)
          /\ path.path[Len(context.path) + 1] = "/"

\* turbo_tasks_fs::rebase: the path moved from the directory old_base to
\* the directory new_base.
Rebase(path, old_base, new_base) ==
    LET new_path ==
            IF old_base.path = <<>>
            THEN IF new_base.path = <<>> THEN path.path
                 ELSE new_base.path \o <<"/">> \o path.path
            ELSE IF new_base.path = <<>>
                 THEN SubSeq(path.path, Len(old_base.path) + 2, Len(path.path))
                 ELSE new_base.path
                        \o SubSeq(path.path, Len(old_base.path) + 1, Len(path.path))
    IN  FsPath(new_base.fs, JoinPath(<<>>, new_path).val)

\* emit: the content of the asset written to its own path.
Emit(asset) == [kind |-> "write", asset |-> asset, to |-> AssetPath(asset)]

\* The emission of a client asset to its own path, the prefix kept.
EmitRebaseKeepsPrefix(asset, from, to) ==
    [kind |-> "write", asset |-> asset, to |-> AssetPath(asset)]

\* emit_rebase: the content of the asset written to its rebased path.
EmitRebase(asset, from, to) ==
    [kind |-> "write", asset |-> asset, to |-> Rebase(AssetPath(asset), from, to)]

\* CompletionVc::immutable()
ImmutableCompletion == [kind |-> "immutable"]

\* The closure emit_all_assets maps over all_assets.
EmitAsset(asset, node_root, client_relative_path, client_output_path) ==
    IF IsInside(AssetPath(asset), node_root) THEN Emit(asset)
    ELSE IF IsInside(AssetPath(asset), client_relative_path)
    THEN EmitRebase(asset, client_relative_path, client_output_path)
    ELSE ImmutableCompletion

\* AdjacencyMap::new().skip_duplicates(): no node, no running visit.
NewTraversal ==
    [visited |-> {}, roots |-> <<>>, adjacency |-> [a \in OutputAssets |-> <<>>],
     pending |-> {}, visits |-> [a \in OutputAssets |-> 0]]

\* The insert of the store without the visited set of skip_duplicates.
StoreInsertNoSkip(tr, parent, node) ==
    [tr EXCEPT !.visited = @ \cup {node},
               !.roots = IF parent.some THEN @ ELSE Append(@, node),
               !.adjacency = IF parent.some
                             THEN [@ EXCEPT ![parent.val] = Append(@, node)]
                             ELSE @,
               !.pending = @ \cup {node},
               !.visits = [@ EXCEPT ![node] = @ + 1]]

\* SkipDuplicates::insert over AdjacencyMap::insert: a node seen before is
\* dropped; a new node is recorded under its parent (or as a root) and a
\* visit of its edges (get_referenced_assets) is started.
StoreInsert(tr, parent, node) ==
    IF node \in tr.visited THEN tr
    ELSE [tr EXCEPT !.visited = @ \cup {node},
                    !.roots = IF parent.some THEN @ ELSE Append(@, node),
                    !.adjacency = IF parent.some
                                  THEN [@ EXCEPT ![parent.val] = Append(@, node)]
                                  ELSE @,
                    !.pending = @ \cup {node},
                    !.visits = [@ EXCEPT ![node] = @ + 1]]

RECURSIVE InsertAll(_, _, _)
\* The loop of GraphTraversal::visit over the edges a visit returned.
InsertAll(tr, parent, nodes) ==
    IF nodes = <<>> THEN tr
    ELSE InsertAll(StoreInsert(tr, parent, Head(nodes)), parent, Tail(nodes))

\* A visit that drops the referenced assets it found.
VisitEdgesNoDescent(tr, refs, node) ==
    [tr EXCEPT !.pending = @ \ {node}]

\* The visit of node has resolved: its referenced assets are inserted.
VisitEdges(tr, refs, node) ==
    InsertAll([tr EXCEPT !.pending = @ \ {node}], Some(node), refs[node])

Reverse(q) == [i \in 1..Len(q) |-> q[Len(q) + 1 - i]]

RECURSIVE ReverseTopologicalIter(_, _, _, _)
\* AdjacencyMap::into_reverse_topological: the nodes in post-order from the
\* roots, each once.
ReverseTopologicalIter(adjacency, stack, seen, out) ==
    IF stack = <<>> THEN out
    ELSE LET top == stack[Len(stack)]
             rest == SubSeq(stack, 1, Len(stack) - 1)
         IN  IF top.pass = "post"
             THEN ReverseTopologicalIter(adjacency, rest, seen, Append(out, top.node))
             ELSE IF top.node \in seen
             THEN ReverseTopologicalIter(adjacency, rest, seen, out)
             ELSE IF adjacency[top.node] = <<>>
             THEN ReverseTopologicalIter(adjacency, rest, seen \cup {top.node},
                                         Append(out, top.node))
             ELSE ReverseTopologicalIter(
                    adjacency,
                    rest \o <<[pass |-> "post", node |-> top.node]>>
                         \o [i \in 1..Len(adjacency[top.node]) |->
                                [pass |-> "pre",
                                 node |-> Reverse(adjacency[top.node])[i]]],
                    seen \cup {top.node}, out)

IntoReverseTopological(tr) ==
    ReverseTopologicalIter(tr.adjacency,
                           [i \in 1..Len(tr.roots) |->
                                [pass |-> "pre", node |-> Reverse(tr.roots)[i]]],
                           {}, <<>>)

AssetsIdle ==
    /\ assetRefs = <<>>
    /\ entryChunks = <<>>
    /\ assetsPc = "idle"
    /\ traversal = None
    /\ allAssets = <<>>
    /\ completions = <<>>

AssetsInit ==
    /\ \E edges \in SUBSET CandidateEdges :
          /\ Cardinality(edges) <= MaxEdges
          /\ assetRefs = [a \in Assets |-> SeqOfSet({e[2] : e \in {d \in edges : d[1] = a}})]
    /\ entryChunks \in SeqsOf(Chunks, 1, MaxEntryChunks)
    /\ assetsPc = "start"
    /\ traversal = NewTraversal
    /\ allAssets = <<>>
    /\ completions = <<>>

\* next_build.rs:553-558: the entries are inserted as the roots of the
\* traversal.
AssetsVisitRoots ==
    /\ assetsPc = "start"
    /\ traversal' = InsertAll(NewTraversal, None, entryChunks)
    /\ assetsPc' = "visiting"
    /\ UNCHANGED <<assetRefs, entryChunks, allAssets, completions>>
    /\ UNCHANGED notAssets

\* next_build.rs:568-581: get_referenced_assets of one asset resolves; the
\* running visits resolve in any order.
AssetsVisitEdges ==
    /\ assetsPc = "visiting"
    /\ \E node \in traversal.pending : traversal' = VisitEdges(traversal, assetRefs, node)
    /\ UNCHANGED <<assetRefs, entryChunks, assetsPc, allAssets, completions>>
    /\ UNCHANGED notAssets

\* next_build.rs:560, 571-578: get_referenced_assets fails and completed()?
\* returns the error.
AssetsVisitFails ==
    /\ assetsPc = "visiting"
    /\ traversal.pending # {}
    /\ assetsPc' = "failed"
    /\ UNCHANGED <<assetRefs, entryChunks, traversal, allAssets, completions>>
    /\ UNCHANGED notAssets

\* next_build.rs:559-563: every visit has resolved; the store is turned
\* into the list of all assets.
AssetsCollect ==
    /\ assetsPc = "visiting"
    /\ traversal.pending = {}
    /\ allAssets' = IntoReverseTopological(traversal)
    /\ assetsPc' = "collected"
    /\ UNCHANGED <<assetRefs, entryChunks, traversal, completions>>
    /\ UNCHANGED notAssets

\* next_build.rs:511-533: one completion per asset, joined into the
\* completion that is returned.
AssetsEmit ==
    /\ assetsPc = "collected"
    /\ completions' = [i \in 1..Len(allAssets) |->
                          EmitAsset(allAssets[i], NodeRoot, ClientRelativePath, ClientRoot)]
    /\ assetsPc' = "emitted"
    /\ UNCHANGED <<assetRefs, entryChunks, traversal, allAssets>>
    /\ UNCHANGED notAssets

\* next_build.rs:516-522: the await of an asset's path fails; try_join and
\* ? return the error.
AssetsEmitFails ==
    /\ assetsPc = "collected"
    /\ allAssets # <<>>
    /\ assetsPc' = "failed"
    /\ UNCHANGED <<assetRefs, entryChunks, traversal, allAssets, completions>>
    /\ UNCHANGED notAssets

----------------------------------------------------------------------------
(* next_build (next-build/src/next_build.rs) *)

MaxRunningWrites == 1

\* The build ids a legacy build context can carry.
BuildIds == {<<"a", "b", "c", "1", "2", "3">>, <<"d", "e", "v">>}

\* The pages of the pages directory and the routes of the app directory a
\* project can hold; the app route imports a client component and a
\* stylesheet.
BuildPagePathnames == {<<"/", "_app">>, <<"/">>}

BuildAppPathnames == {<<"/", "blog">>}

BuildClientReferenceTypes ==
    <<EcmascriptClientReference("menu+lib.client", "menu+lib.ssr"),
      CssClientReference("theme.css")>>

\* The manifests with no content yet (Default::default()).
DefaultManifests ==
    [pages |-> [pages |-> <<>>],
     build |-> [pages |-> <<>>, low_priority_files |-> <<>>],
     app_build |-> [pages |-> <<>>],
     app_paths |-> [node_server_app_paths |-> <<>>]]

\* path.join(name) for a relative name without "." and ".." segments.
FsJoin(base, name) == FsPath(base.fs, JoinPath(base.path, name).val)

\* format!("static/{build_id}/_ssgManifest.js")
SsgManifestPath(build_id) == <<"static", "/">> \o build_id \o <<"/", "_ssgManifest.js">>

\* The path of the client manifest snippet without the build id.
ClientManifestPathNoBuildId(build_id) == <<"static", "/", "_buildManifest.js">>

\* format!("static/{build_id}/_buildManifest.js")
ClientManifestPath(build_id) == <<"static", "/">> \o build_id \o <<"/", "_buildManifest.js">>

\* The write of content to path, without the push of its completion.
IssueWriteNotJoined(st, path, content) ==
    [st EXCEPT !.writes = Append(@, [path |-> path, content |-> content, state |-> "pending"])]

\* completions.push(path.write(content)): the write is issued and its
\* completion is kept to be joined.
IssueWrite(st, path, content) ==
    [st EXCEPT !.writes = Append(@, [path |-> path, content |-> content, state |-> "pending"]),
               !.completions = Append(@, Len(st.writes) + 1)]

\* write_manifest: the manifest serialized and written to manifest_path.
WriteManifest(st, manifest, manifest_path) ==
    IssueWrite(st, manifest_path, [json |-> manifest])

\* next_build.rs:273: client_root.join("build-manifest.json")
BuildManifestPath == FsJoin(ClientRoot, <<"build-manifest.json">>)

\* next_build.rs:284: node_root.join("server/pages-manifest.json")
PagesManifestPath == FsJoin(NodeRoot, <<"server", "/", "pages-manifest.json">>)

\* next_build.rs:303: client_root.join("app-build-manifest.json")
AppBuildManifestPath == FsJoin(ClientRoot, <<"app-build-manifest.json">>)

\* next_build.rs:306: node_root.join("server/app-paths-manifest.json")
AppPathsManifestPath == FsJoin(NodeRoot, <<"server", "/", "app-paths-manifest.json">>)

\* next_build.rs:425-441: the paths of the placeholder manifests, in the
\* order they are written.
PlaceholderManifestPaths ==
    <<FsJoin(NodeRoot, <<"server", "/", "middleware-manifest.json">>),
      FsJoin(NodeRoot, <<"server", "/", "next-font-manifest.json">>),
      FsJoin(NodeRoot, <<"server", "/", "font-manifest.json">>),
      FsJoin(NodeRoot, <<"server", "/", "server-reference-manifest.json">>),
      FsJoin(NodeRoot, <<"react-loadable-manifest.json">>)>>

\* The write_manifest calls of the manifests that have content only.
ManifestWritesNoPlaceholders(mf) ==
    <<[manifest |-> mf.pages, path |-> PagesManifestPath],
      [manifest |-> mf.app_build, path |-> AppBuildManifestPath],
      [manifest |-> mf.app_paths, path |-> AppPathsManifestPath],
      [manifest |-> mf.build, path |-> BuildManifestPath]>>

\* The write_manifest calls with the font manifest sent to the path of the
\* next-font manifest.
ManifestWritesSharedPath(mf) ==
    <<[manifest |-> mf.pages, path |-> PagesManifestPath],
      [manifest |-> mf.app_build, path |-> AppBuildManifestPath],
      [manifest |-> mf.app_paths, path |-> AppPathsManifestPath],
      [manifest |-> mf.build, path |-> BuildManifestPath],
      [manifest |-> [middleware |-> <<>>], path |-> PlaceholderManifestPaths[1]],
      [manifest |-> [next_font |-> <<>>], path |-> PlaceholderManifestPaths[2]],
      [manifest |-> [font |-> <<>>], path |-> PlaceholderManifestPaths[2]],
      [manifest |-> [server_reference |-> <<>>], path |-> PlaceholderManifestPaths[4]],
      [manifest |-> [react_loadable |-> <<>>], path |-> PlaceholderManifestPaths[5]]>>

\* The nine write_manifest calls of next_build.rs:414-442, in order: the
\* manifest and its path.
ManifestWrites(mf) ==
    <<[manifest |-> mf.pages, path |-> PagesManifestPath],
      [manifest |-> mf.app_build, path |-> AppBuildManifestPath],
      [manifest |-> mf.app_paths, path |-> AppPathsManifestPath],
      [manifest |-> mf.build, path |-> BuildManifestPath],
      [manifest |-> [middleware |-> <<>>], path |-> PlaceholderManifestPaths[1]],
      [manifest |-> [next_font |-> <<>>], path |-> PlaceholderManifestPaths[2]],
      [manifest |-> [font |-> <<>>], path |-> PlaceholderManifestPaths[3]],
      [manifest |-> [server_reference |-> <<>>], path |-> PlaceholderManifestPaths[4]],
      [manifest |-> [react_loadable |-> <<>>], path |-> PlaceholderManifestPaths[5]]>>

\* IssueReporter::report_issues: has_fatal
HasFatal(issues) == "fatal" \in issues

BuildIdle ==
    /\ buildOptions = None
    /\ buildPc = "idle"
    /\ failedAt = "none"
    /\ reported = <<>>
    /\ fatalRaised = {}
    /\ manifests = None
    /\ buildChunks = <<>>
    /\ writes = <<>>
    /\ buildCompletions = <<>>
    /\ mfIdx = 1

BuildInit ==
    /\ \E context \in {None} \cup {Some([build_id |-> id]) : id \in BuildIds},
          pages \in SUBSET BuildPagePathnames,
          app \in SUBSET BuildAppPathnames,
          page_issues \in SUBSET {"fatal"},
          app_issues \in SUBSET {"fatal"} :
          buildOptions = [build_context |-> context, pages |-> SeqOfSet(pages),
                          app |-> SeqOfSet(app), page_issues |-> page_issues,
                          app_issues |-> app_issues]
    /\ buildPc = "configure"
    /\ failedAt = "none"
    /\ reported = <<>>
    /\ fatalRaised = {}
    /\ manifests = DefaultManifests
    /\ buildChunks = <<>>
    /\ writes = <<>>
    /\ buildCompletions = <<>>
    /\ mfIdx = 1

\* next_build.rs:66-156: the roots are mounted, the configuration loaded
\* and the two entry computations created.
BuildConfigure ==
    /\ buildPc = "configure"
    /\ buildPc' = "issues_pages"
    /\ UNCHANGED <<buildOptions, failedAt, reported, fatalRaised, manifests, buildChunks,
                   writes, buildCompletions, mfIdx>>
    /\ UNCHANGED notBuild

\* next_build.rs:158 and handle_issues: the issues of the page entries are
\* reported; a fatal one is returned as an error.
BuildHandleIssuesPages ==
    /\ buildPc = "issues_pages"
    /\ reported' = Append(reported, "page_entries")
    /\ IF HasFatal(buildOptions.page_issues)
       THEN buildPc' = "failed" /\ failedAt' = buildPc
       ELSE buildPc' = "issues_app" /\ UNCHANGED failedAt
    /\ UNCHANGED <<buildOptions, fatalRaised, manifests, buildChunks, writes,
                   buildCompletions, mfIdx>>
    /\ UNCHANGED notBuild

\* next_build.rs:159 and handle_issues: the issues of the app entries are
\* reported; a fatal one is returned as an error.
BuildHandleIssuesApp ==
    /\ buildPc = "issues_app"
    /\ reported' = Append(reported, "app_entries")
    /\ IF HasFatal(buildOptions.app_issues)
       THEN buildPc' = "failed" /\ failedAt' = buildPc
       ELSE buildPc' = "extract" /\ UNCHANGED failedAt
    /\ UNCHANGED <<buildOptions, fatalRaised, manifests, buildChunks, writes,
                   buildCompletions, mfIdx>>
    /\ UNCHANGED notBuild

\* The step after discovery that goes to the manifests at once.
BuildExtractReferencesThenManifests ==
    /\ buildPc = "extract"
    /\ buildPc' = "legacy"
    /\ UNCHANGED <<buildOptions, failedAt, reported, fatalRaised, manifests, buildChunks,
                   writes, buildCompletions, mfIdx>>
    /\ UNCHANGED notBuild

\* next_build.rs:161-238: the entries are awaited and the client references
\* of the server entries collected.  The computations may raise a fatal
\* diagnostic; no handle_issues call looks at it.
BuildExtractReferences ==
    /\ buildPc = "extract"
    /\ \E fatal \in BOOLEAN : fatalRaised' = IF fatal THEN {"extract"} ELSE {}
    /\ buildPc' = "contexts"
    /\ UNCHANGED <<buildOptions, failedAt, reported, manifests, buildChunks, writes,
                   buildCompletions, mfIdx>>
    /\ UNCHANGED notBuild

\* next_build.rs:246-279: the chunking contexts are built.
BuildChunkingContexts ==
    /\ buildPc = "contexts"
    /\ buildPc' = "chunk_pages"
    /\ UNCHANGED <<buildOptions, failedAt, reported, fatalRaised, manifests, buildChunks,
                   writes, buildCompletions, mfIdx>>
    /\ UNCHANGED notBuild

\* The module of a page entry.
PageModule(pathname) == IF pathname = <<"/", "_app">> THEN "pages/_app" ELSE "pages/index"

\* The output assets that reference another one: the stylesheet of the app
\* refers to an image.
BuildAssetRefs ==
    [a \in OutputAssets |->
        IF a = OutputAsset("client", "theme.css") THEN <<ImagePng>> ELSE <<>>]

\* The page chunking that starts all_chunks anew instead of extending it.
ComputePageEntriesChunksAnew(st, pages) ==
    [st EXCEPT !.all_chunks = [i \in 1..Len(pages) |->
                                  OutputAsset("ssr", PageModule(pages[i]))]]

RECURSIVE ComputePageEntriesChunks(_, _)
\* compute_page_entries_chunks: every page entry is chunked for the server
\* and for the client, recorded in the pages manifest and the build
\* manifest, and its chunks are appended to all_chunks.
ComputePageEntriesChunks(st, pages) ==
    IF pages = <<>> THEN st
    ELSE LET pathname == Head(pages)
             ssr == ChunkGroup("ssr", AsRootChunk(PageModule(pathname), "ssr"))
             client == ChunkGroup("client", AsRootChunk(PageModule(pathname), "client"))
         IN  ComputePageEntriesChunks(
                [st EXCEPT !.manifests.pages.pages = MapInsert(@, pathname, ssr[1].chunk),
                           !.manifests.build.pages =
                                MapInsert(@, pathname, [i \in 1..Len(client) |-> client[i].chunk]),
                           !.all_chunks = @ \o ssr \o client],
                Tail(pages))

RECURSIVE ComputeAppClientReferencesChunks(_, _)
\* compute_app_client_references_chunks as next_build calls it: the chunks
\* of every reference type, kept by type and appended to all_chunks.
ComputeAppClientReferencesChunks(st, types) ==
    IF types = <<>> THEN st
    ELSE ComputeAppClientReferencesChunks(
            [st EXCEPT !.all_chunks =
                            @ \o FoldedChunks(Head(types), ClientReferenceChunksOf(Head(types)))],
            Tail(types))

\* The map compute_app_client_references_chunks returns to next_build
\* (app_client_reference.rs:27-62, 79).
AppClientReferencesChunks(types) ==
    MapExtend(<<>>, [i \in 1..Len(types) |->
                        [key |-> types[i], value |-> ClientReferenceChunksOf(types[i])]])

RECURSIVE ClientChunkNames(_)
\* The names of the client chunks of every reference type of the map.
ClientChunkNames(client_references_chunks) ==
    IF client_references_chunks = <<>> THEN <<>>
    ELSE LET chunks == Head(client_references_chunks).value.client_chunks
         IN  [i \in 1..Len(chunks) |-> chunks[i].chunk]
                \o ClientChunkNames(Tail(client_references_chunks))

RECURSIVE ComputeAppEntriesChunks(_, _, _)
\* compute_app_entries_chunks: every app entry is chunked for the server,
\* recorded in the app build manifest, with the client chunks of its client
\* references taken from the map of compute_app_client_references_chunks,
\* and in the app paths manifest; its chunks are appended to all_chunks.
ComputeAppEntriesChunks(st, app, app_client_references_chunks) ==
    IF app = <<>> THEN st
    ELSE LET pathname == Head(app)
             rsc == ChunkGroup("rsc", AsRootChunk("app/page.rsc", "rsc"))
         IN  ComputeAppEntriesChunks(
                [st EXCEPT !.manifests.app_build.pages =
                                MapInsert(@, pathname,
                                          [i \in 1..Len(rsc) |-> rsc[i].chunk]
                                            \o ClientChunkNames(app_client_references_chunks)),
                           !.manifests.app_paths.node_server_app_paths =
                                MapInsert(@, pathname, rsc[1].chunk),
                           !.all_chunks = @ \o rsc],
                Tail(app), app_client_references_chunks)

\* The client reference types of the app entries (next_build.rs:181-193).
AppClientReferenceTypes(app) == IF app = <<>> THEN <<>> ELSE BuildClientReferenceTypes

\* get_sorted_routes of the keys of the pages manifest, when it succeeds.
GetSortedRoutes(pages) == [i \in 1..Len(pages) |-> pages[i].key]

RECURSIVE ClientManifestPages(_, _, _, _)
\* The loop of next_build.rs:370-385: the dependencies of every sorted page
\* that the app does not have; a page equal to "_app" is skipped.
ClientManifestPages(sorted_pages, pages, app_dependencies, out) ==
    IF sorted_pages = <<>> THEN out
    ELSE LET page == Head(sorted_pages)
             dependencies ==
                 IF IndexOf(pages, page) # 0 /\ MapGet(pages, page) \notin app_dependencies
                 THEN <<MapGet(pages, page)>>
                 ELSE <<>>
         IN  ClientManifestPages(
                Tail(sorted_pages), pages, app_dependencies,
                IF page = <<"_app">> \/ dependencies = <<>> THEN out
                ELSE MapInsert(out, page, dependencies))

\* ClientBuildManifest { rewrites, sorted_pages, pages }
ClientBuildManifest(pages_manifest) ==
    [sorted_pages |-> GetSortedRoutes(pages_manifest.pages),
     pages |-> ClientManifestPages(
                  GetSortedRoutes(pages_manifest.pages), pages_manifest.pages,
                  IF IndexOf(pages_manifest.pages, <<"/", "_app">>) # 0
                  THEN {MapGet(pages_manifest.pages, <<"/", "_app">>)} ELSE {},
                  <<>>)]

RECURSIVE RunTraversal(_, _)
\* GraphTraversal::visit run until no visit is left.
RunTraversal(tr, refs) ==
    IF tr.pending = {} THEN tr
    ELSE RunTraversal(VisitEdges(tr, refs, CHOOSE node \in tr.pending : TRUE), refs)

\* all_assets_from_entries: the root chunks and what they reference.
AllAssetsFromEntries(entries, refs) ==
    IntoReverseTopological(RunTraversal(InsertAll(NewTraversal, None, entries), refs))

RECURSIVE IssueEmits(_, _)
\* The writes behind the completions emit_all_assets joins.
IssueEmits(st, emits) ==
    IF emits = <<>> THEN st
    ELSE IssueEmits(
            IF Head(emits).kind = "write"
            THEN IssueWrite(st, Head(emits).to, [asset |-> Head(emits).asset])
            ELSE st,
            Tail(emits))

\* emit_all_assets as next_build calls it.
EmitAllAssets(st, all_chunks) ==
    LET all_assets == AllAssetsFromEntries(all_chunks, BuildAssetRefs)
    IN  IssueEmits(st, [i \in 1..Len(all_assets) |->
                          EmitAsset(all_assets[i], NodeRoot, ClientRelativePath, ClientRoot)])

\* The accumulators of next_build as one record.
BuildState ==
    [manifests |-> manifests, all_chunks |-> buildChunks, writes |-> writes,
     completions |-> buildCompletions]

\* The accumulators after a step.
BuildStateBecomes(st) ==
    /\ manifests' = st.manifests
    /\ buildChunks' = st.all_chunks
    /\ writes' = st.writes
    /\ buildCompletions' = st.completions

\* A chunking step may raise a fatal diagnostic; no handle_issues call looks
\* at it.  Only the first phase to raise one is kept.
ChunkingMayRaiseFatal ==
    \E fatal \in BOOLEAN :
        fatalRaised' = IF fatal /\ fatalRaised = {} THEN {"chunking"} ELSE fatalRaised

\* next_build.rs:281-298
BuildChunkPages ==
    /\ buildPc = "chunk_pages"
    /\ BuildStateBecomes(ComputePageEntriesChunks(BuildState, buildOptions.pages))
    /\ ChunkingMayRaiseFatal
    /\ buildPc' = "chunk_client_refs"
    /\ UNCHANGED <<buildOptions, failedAt, reported, mfIdx>>
    /\ UNCHANGED notBuild

\* next_build.rs:300-317
BuildChunkClientRefs ==
    /\ buildPc = "chunk_client_refs"
    /\ BuildStateBecomes(ComputeAppClientReferencesChunks(
                            BuildState, AppClientReferenceTypes(buildOptions.app)))
    /\ ChunkingMayRaiseFatal
    /\ buildPc' = "chunk_app"
    /\ UNCHANGED <<buildOptions, failedAt, reported, mfIdx>>
    /\ UNCHANGED notBuild

\* next_build.rs:319-337
BuildChunkApp ==
    /\ buildPc = "chunk_app"
    /\ BuildStateBecomes(ComputeAppEntriesChunks(
                            BuildState, buildOptions.app,
                            AppClientReferencesChunks(AppClientReferenceTypes(buildOptions.app))))
    /\ ChunkingMayRaiseFatal
    /\ buildPc' = "legacy"
    /\ UNCHANGED <<buildOptions, failedAt, reported, mfIdx>>
    /\ UNCHANGED notBuild

\* next_build.rs:339-357: with a legacy build context, the SSG manifest
\* snippet is written below the node root and its relative path is pushed
\* to the low-priority files of the build manifest.
BuildLegacySsgManifest ==
    /\ buildPc = "legacy"
    /\ buildOptions.build_context.some
    /\ LET ssg_manifest_path == SsgManifestPath(buildOptions.build_context.val.build_id)
           st == IssueWrite(BuildState, FsJoin(NodeRoot, ssg_manifest_path),
                            [snippet |-> "__SSG_MANIFEST"])
       IN  BuildStateBecomes(
              [st EXCEPT !.manifests.build.low_priority_files = Append(@, ssg_manifest_path)])
    /\ buildPc' = "legacy_client"
    /\ UNCHANGED <<buildOptions, failedAt, reported, fatalRaised, mfIdx>>
    /\ UNCHANGED notBuild

\* next_build.rs:359-411: the client manifest is computed, its snippet is
\* written below the node root and its relative path is pushed to the
\* low-priority files of the build manifest.
BuildLegacyClientManifest ==
    /\ buildPc = "legacy_client"
    /\ LET client_manifest_path == ClientManifestPath(buildOptions.build_context.val.build_id)
           st == IssueWrite(BuildState, FsJoin(NodeRoot, client_manifest_path),
                            [snippet |-> "__BUILD_MANIFEST",
                             manifest |-> ClientBuildManifest(manifests.pages)])
       IN  BuildStateBecomes(
              [st EXCEPT !.manifests.build.low_priority_files = Append(@, client_manifest_path)])
    /\ buildPc' = "manifests"
    /\ UNCHANGED <<buildOptions, failedAt, reported, fatalRaised, mfIdx>>
    /\ UNCHANGED notBuild

\* next_build.rs:341: without a legacy build context the block is skipped.
BuildNoLegacyContext ==
    /\ buildPc = "legacy"
    /\ ~buildOptions.build_context.some
    /\ buildPc' = "manifests"
    /\ UNCHANGED <<buildOptions, failedAt, reported, fatalRaised, manifests, buildChunks,
                   writes, buildCompletions, mfIdx>>
    /\ UNCHANGED notBuild

\* next_build.rs:414-442: the next write_manifest call.
BuildWriteManifest ==
    /\ buildPc = "manifests"
    /\ LET w == ManifestWrites(manifests)[mfIdx]
       IN  BuildStateBecomes(WriteManifest(BuildState, w.manifest, w.path))
    /\ mfIdx' = mfIdx + 1
    /\ buildPc' = IF mfIdx = Len(ManifestWrites(manifests)) THEN "emit" ELSE buildPc
    /\ UNCHANGED <<buildOptions, failedAt, reported, fatalRaised>>
    /\ UNCHANGED notBuild

\* next_build.rs:444-452: the assets reachable from all_chunks are emitted.
BuildEmitAllAssets ==
    /\ buildPc = "emit"
    /\ BuildStateBecomes(EmitAllAssets(BuildState, buildChunks))
    /\ buildPc' = "return"
    /\ UNCHANGED <<buildOptions, failedAt, reported, fatalRaised, mfIdx>>
    /\ UNCHANGED notBuild

\* next_build.rs:454: Ok(CompletionsVc::all(completions))
BuildReturn ==
    /\ buildPc = "return"
    /\ buildPc' = "returned"
    /\ UNCHANGED <<buildOptions, failedAt, reported, fatalRaised, manifests, buildChunks,
                   writes, buildCompletions, mfIdx>>
    /\ UNCHANGED notBuild

\* The positions with an await or a call that can return an error.
FalliblePositions ==
    {"configure", "extract", "contexts", "chunk_pages", "chunk_client_refs", "chunk_app",
     "legacy_client", "manifests", "emit"}

\* A failure of next_build that takes back the writes issued so far.
BuildFailsRollsBack ==
    /\ buildPc \in FalliblePositions
    /\ buildPc' = "failed"
    /\ failedAt' = buildPc
    /\ writes' = <<>>
    /\ buildCompletions' = <<>>
    /\ UNCHANGED <<buildOptions, reported, fatalRaised, manifests, buildChunks, mfIdx>>
    /\ UNCHANGED notBuild

\* A ? of next_build returns the error: nothing more is issued.
BuildFails ==
    /\ buildPc \in FalliblePositions
    /\ buildPc' = "failed"
    /\ failedAt' = buildPc
    /\ UNCHANGED <<buildOptions, reported, fatalRaised, manifests, buildChunks, writes,
                   buildCompletions, mfIdx>>
    /\ UNCHANGED notBuild

\* The writes not yet resolved.
Unresolved == {i \in 1..Len(writes) : writes[i].state = "pending"}

\* No write has failed so far.
NoWriteFailed == \A j \in 1..Len(writes) : writes[j].state # "failed"

\* An issued write that never resolves.
WriteStaysPending ==
    /\ Unresolved # {}
    /\ UNCHANGED buildVars
    /\ UNCHANGED notBuild

\* An issued write resolves, at any time after it was issued and whatever
\* next_build does meanwhile; at most MaxRunningWrites writes run at once,
\* the oldest first, and at most one write of a build fails.
WriteResolves ==
    /\ \E i \in Unresolved, ok \in BOOLEAN :
          /\ Cardinality({j \in Unresolved : j < i}) < MaxRunningWrites
          /\ ok \/ NoWriteFailed
          /\ writes' = [writes EXCEPT ![i].state = IF ok THEN "ok" ELSE "failed"]
    /\ UNCHANGED <<buildOptions, buildPc, failedAt, reported, fatalRaised, manifests,
                   buildChunks, buildCompletions, mfIdx>>
    /\ UNCHANGED notBuild

\* CompletionsVc::all(completions): the completion of the build resolves
\* once every completion it joins has.
BuildCompletes ==
    /\ buildPc = "returned"
    /\ \A n \in 1..Len(buildCompletions) : writes[buildCompletions[n]].state = "ok"
    /\ buildPc' = "done"
    /\ UNCHANGED <<buildOptions, failedAt, reported, fatalRaised, manifests, buildChunks,
                   writes, buildCompletions, mfIdx>>
    /\ UNCHANGED notBuild

\* CompletionsVc::all(completions): a completion it joins has failed, and
\* the completion of the build fails.
BuildCompletionFails ==
    /\ buildPc = "returned"
    /\ \E n \in 1..Len(buildCompletions) : writes[buildCompletions[n]].state = "failed"
    /\ buildPc' = "failed"
    /\ failedAt' = buildPc
    /\ UNCHANGED <<buildOptions, reported, fatalRaised, manifests, buildChunks, writes,
                   buildCompletions, mfIdx>>
    /\ UNCHANGED notBuild

----------------------------------------------------------------------------
(* Specifications *)

InitProject == ProjectInit /\ RoutesIdle /\ EndpointIdle /\ ClientRefIdle /\ AssetsIdle /\ BuildIdle

NextProject == ProjectNew

SpecProject == InitProject /\ [][NextProject]_vars

InitRoutes == RoutesInit /\ ProjectIdle /\ EndpointIdle /\ ClientRefIdle /\ AssetsIdle /\ BuildIdle

NextRoutes ==
    \/ EntrypointsApp
    \/ AddDirBegin
    \/ AddDirStep
    \/ AddDirEnd
    \/ MergeStep
    \/ EntrypointsReturn
    \/ ScanFails

SpecRoutes == InitRoutes /\ [][NextRoutes]_vars

InitEndpoint == EndpointInit /\ ProjectIdle /\ RoutesIdle /\ ClientRefIdle /\ AssetsIdle /\ BuildIdle

NextEndpoint ==
    \/ EndpointWriteToDisk
    \/ ComputationSettles
    \/ EndpointWriteToDiskReturns
    \/ EndpointChangedSubscribe
    \/ SourceChange

SpecEndpoint == InitEndpoint /\ [][NextEndpoint]_vars

InitClientRef == ClientRefInit /\ ProjectIdle /\ RoutesIdle /\ EndpointIdle /\ AssetsIdle /\ BuildIdle

NextClientRef ==
    \/ ClientRefCollectTypes
    \/ ClientRefSpawn
    \/ ClientRefCompute
    \/ ClientRefComputeFails
    \/ ClientRefJoin
    \/ ClientRefFold
    \/ ClientRefFoldFails
    \/ ClientRefReturn

SpecClientRef == InitClientRef /\ [][NextClientRef]_vars

InitAssets == AssetsInit /\ ProjectIdle /\ RoutesIdle /\ EndpointIdle /\ ClientRefIdle /\ BuildIdle

NextAssets ==
    \/ AssetsVisitRoots
    \/ AssetsVisitEdges
    \/ AssetsVisitFails
    \/ AssetsCollect
    \/ AssetsEmit
    \/ AssetsEmitFails

SpecAssets == InitAssets /\ [][NextAssets]_vars

\* The traversal from root chunks that are all different.
InitAssetsDistinctRoots ==
    /\ InitAssets
    /\ \A i, j \in 1..Len(entryChunks) : i # j => entryChunks[i] # entryChunks[j]

\* The traversal under a scheduler that runs a task that can run.
SpecAssetsFair ==
    InitAssetsDistinctRoots /\ [][NextAssets]_vars /\ WF_vars(NextAssets)

InitBuild ==
    BuildInit /\ ProjectIdle /\ RoutesIdle /\ EndpointIdle /\ ClientRefIdle /\ AssetsIdle

NextBuild ==
    \/ BuildFails
    \/ WriteResolves
    \/ BuildConfigure
    \/ BuildHandleIssuesPages
    \/ BuildHandleIssuesApp
    \/ BuildExtractReferences
    \/ BuildChunkingContexts
    \/ BuildNoLegacyContext
    \/ BuildReturn
    \/ BuildCompletes
    \/ BuildCompletionFails
    \/ BuildChunkPages
    \/ BuildChunkClientRefs
    \/ BuildChunkApp
    \/ BuildLegacySsgManifest
    \/ BuildLegacyClientManifest
    \/ BuildWriteManifest
    \/ BuildEmitAllAssets

SpecBuild == InitBuild /\ [][NextBuild]_vars

\* next_build under a scheduler that runs a task that can run: the body of
\* next_build goes on and an issued write resolves.
SpecBuildFair == SpecBuild /\ WF_vars(NextBuild)

----------------------------------------------------------------------------
(* Claims *)

RECURSIVE DirsBelow(_)
\* The directories a walk from the directories ds visits.
DirsBelow(ds) ==
    LET next == ds \cup UNION {{dirs[d].children[i] : i \in 1..Len(dirs[d].children)} : d \in ds}
    IN  IF next = ds THEN ds ELSE DirsBelow(next)

\* The leaf items of the tree ("api" or "pages") of the page structure.
LeavesOf(tree) ==
    IF pageStructure[tree].some
    THEN UNION {{dirs[d].items[i] : i \in 1..Len(dirs[d].items)} :
                    d \in DirsBelow({pageStructure[tree].val})}
    ELSE {}

AllLeaves == LeavesOf("api") \cup LeavesOf("pages")

LeafPathname(leaf) == <<"/">> \o leaf.next_router_path

AppKeys ==
    IF appEntrypoints.some
    THEN {appEntrypoints.val[i].key : i \in 1..Len(appEntrypoints.val)}
    ELSE {}

PagesRoutesBuilt == routesPc \in {"merge", "done"}

\* C1: once entrypoints has returned, every pathname that both an app entry
\* and a page or api leaf produce maps to Route::Conflict, in whatever order
\* each source lists its entries.
C1_BothSourcesConflict ==
    routesPc = "done" =>
        \A k \in AppKeys \cap {LeafPathname(l) : l \in AllLeaves} :
            /\ IndexOf(entrypointsResult.routes, k) # 0
            /\ MapGet(entrypointsResult.routes, k) = RouteConflict

C1_Witness ==
    /\ routesPc = "done"
    /\ AppKeys \cap {LeafPathname(l) : l \in AllLeaves} # {}
    /\ Len(entrypointsResult.routes) >= 2

\* C2: the table of get_pages_routes has exactly one entry per leaf file
\* (as many entries as leaves), keyed by "/" followed by the leaf's router
\* path, so every key starts with "/".
C2_OneEntryPerLeaf ==
    PagesRoutesBuilt =>
        /\ Len(pagesRoutes) = Cardinality(AllLeaves)
        /\ MapKeys(pagesRoutes) = {LeafPathname(l) : l \in AllLeaves}
        /\ \A k \in MapKeys(pagesRoutes) : k # <<>> /\ Head(k) = "/"

\* C3: in the table of get_pages_routes every leaf of the pages tree has a
\* Route::Page with an HTML and a data endpoint built for its pathname and
\* source path, every leaf of the api tree a Route::PageApi with one API
\* endpoint; for the leaves index and api/hello the keys are "/" and
\* "/api/hello".
C3_LeafRoutes ==
    PagesRoutesBuilt =>
        /\ \A l \in LeavesOf("pages") :
              /\ IndexOf(pagesRoutes, LeafPathname(l)) # 0
              /\ MapGet(pagesRoutes, LeafPathname(l)) =
                    [kind |-> "Page",
                     html_endpoint |->
                        [kind |-> "PageHtmlEndpoint", pathname |-> LeafPathname(l),
                         original_name |-> <<"/">> \o l.original_path,
                         path |-> l.project_path],
                     data_endpoint |->
                        [kind |-> "PageDataEndpoint", pathname |-> LeafPathname(l),
                         original_name |-> <<"/">> \o l.original_path,
                         path |-> l.project_path]]
        /\ \A l \in LeavesOf("api") :
              /\ IndexOf(pagesRoutes, LeafPathname(l)) # 0
              /\ MapGet(pagesRoutes, LeafPathname(l)) =
                    [kind |-> "PageApi",
                     endpoint |->
                        [kind |-> "ApiEndpoint", pathname |-> LeafPathname(l),
                         original_name |-> <<"/">> \o l.original_path,
                         path |-> l.project_path]]
        /\ ({l.project_path : l \in AllLeaves} = {"pages/index.js", "pages/api/hello.js"}
                => MapKeys(pagesRoutes) = {<<"/">>, <<"/", "a", "p", "i", "/", "h", "e", "l", "l", "o">>})

\* The segments of an absolute path of the platform, "." and ".." resolved;
\* None when it climbs above the filesystem root.
AbsoluteSegments(path, sep) == NormalizeSegments(Split(path, sep), <<>>)

IsPrefixOf(p, s) == Len(p) <= Len(s) /\ SubSeq(s, 1, Len(p)) = p

\* The directory project lies in the directory root or below it.
NestedUnder(project, root, sep) ==
    LET r == AbsoluteSegments(root, sep)
        p == AbsoluteSegments(project, sep)
    IN  r.some /\ p.some /\ IsPrefixOf(r.val, p.val)

\* C10: ProjectVc::new rejects every project path that is not nested under
\* the root path, a path that only shares a string prefix with the root
\* included (a panic of the unwrap is counted as a rejection here).
C10_NotNestedRejected ==
    (projectPc = "done" /\ ~NestedUnder(options.project_path, options.root_path, separator))
        => projectResult.outcome # "ok"

\* C4: write_to_disk is idempotent for every endpoint variant: two calls on
\* one endpoint with no source change between them both return a
\* WrittenEndpoint, and the two values are equal.
C4_WriteToDiskIdempotent ==
    \A i, j \in 1..Len(calls) :
        (i < j /\ calls[i].endpoint = calls[j].endpoint /\ calls[i].version = calls[j].version)
            => /\ calls[i].result.outcome = "ok"
               /\ calls[j].result.outcome = "ok"
               /\ calls[i].result.written = calls[j].result.written

\* C8: in the map compute_app_client_references_chunks returns, every CSS
\* reference has the client chunk group of its client module and empty
\* ssr_chunks; every Ecmascript reference has the client chunk group of its
\* client_module and the SSR chunk group of its ssr_module, both non-empty.
C8_ClientReferenceChunks ==
    crPc = "done" =>
        /\ MapKeys(crResult.value) = {crTypes[i] : i \in 1..Len(crTypes)}
        /\ \A i \in 1..Len(crResult.value) :
              LET ty == crResult.value[i].key
                  cs == crResult.value[i].value
              IN  /\ cs.client_chunks # <<>>
                  /\ cs.client_chunks[1] = [context |-> "client", chunk |-> ty.client_module]
                  /\ \A n \in 1..Len(cs.client_chunks) : cs.client_chunks[n].context = "client"
                  /\ ty.kind = "CssClientReference" => cs.ssr_chunks = <<>>
                  /\ ty.kind = "EcmascriptClientReference" =>
                        /\ cs.ssr_chunks # <<>>
                        /\ cs.ssr_chunks[1] = [context |-> "ssr", chunk |-> ty.ssr_module]
                        /\ \A n \in 1..Len(cs.ssr_chunks) : cs.ssr_chunks[n].context = "ssr"

C8_Witness ==
    /\ crPc = "done"
    /\ \E i, j \in 1..Len(crResult.value) :
          /\ crResult.value[i].key.kind = "CssClientReference"
          /\ crResult.value[j].key.kind = "EcmascriptClientReference"

\* The number of root chunks, counted with their repetitions, that are the
\* asset.
TimesInEntries(asset) == Cardinality({i \in 1..Len(entryChunks) : entryChunks[i] = asset})

\* The distinct root chunks with a reference to the asset.
ReferringChunks(asset) ==
    {entryChunks[i] : i \in 1..Len(entryChunks)}
        \cap {c \in Assets : \E n \in 1..Len(assetRefs[c]) : assetRefs[c][n] = asset}

\* The asset is in a diamond below the root set, or is repeated in it.
SharedAsset(asset) == Cardinality(ReferringChunks(asset)) >= 2 \/ TimesInEntries(asset) >= 2

WritesOf(asset) ==
    Cardinality({i \in 1..Len(completions) :
                    completions[i].kind = "write" /\ completions[i].asset = asset})

Emittable(asset) ==
    IsInside(AssetPath(asset), NodeRoot) \/ IsInside(AssetPath(asset), ClientRelativePath)

\* C5 as stated: an asset that two or more distinct root chunks reference,
\* or that is repeated in the root set, is visited exactly once and gets
\* exactly one write.
C5_SharedAssetOneWrite ==
    assetsPc = "emitted" =>
        \A a \in Assets :
            SharedAsset(a) => traversal.visits[a] = 1 /\ WritesOf(a) = 1

\* C5 amended: such an asset is never visited twice, is visited exactly once
\* when the emission is made, and gets exactly one write if its path is
\* inside the node root or the client-relative path, none otherwise.
C5_SharedAssetVisitedOnce ==
    /\ assetsPc # "idle" => \A a \in Assets : traversal.visits[a] <= 1
    /\ assetsPc = "emitted" =>
          \A a \in Assets :
              SharedAsset(a) =>
                  /\ traversal.visits[a] = 1
                  /\ Cardinality({i \in 1..Len(allAssets) : allAssets[i] = a}) = 1
                  /\ WritesOf(a) = IF Emittable(a) THEN 1 ELSE 0

C5_Witness ==
    /\ assetsPc = "emitted"
    /\ \E a \in Assets :
          /\ Cardinality(ReferringChunks(a)) >= 2
          /\ a \notin {entryChunks[i] : i \in 1..Len(entryChunks)}
          /\ WritesOf(a) = 1
    /\ \E i, j \in 1..Len(entryChunks) : i # j /\ entryChunks[i] = entryChunks[j]

\* The positions of entry discovery, reference extraction and chunking.
PhasesTwoToFour ==
    {"issues_pages", "issues_app", "extract", "contexts", "chunk_pages",
     "chunk_client_refs", "chunk_app"}

\* C6: in a run of next_build in which entry discovery, reference extraction
\* or chunking reports a fatal diagnostic or fails, no manifest write, legacy
\* snippet or placeholder is ever issued.
C6_FatalOrFailureNoManifestWrite ==
    (\/ HasFatal(buildOptions.page_issues) /\ "page_entries" \in {reported[i] : i \in 1..Len(reported)}
     \/ HasFatal(buildOptions.app_issues) /\ "app_entries" \in {reported[i] : i \in 1..Len(reported)}
     \/ fatalRaised # {}
     \/ failedAt \in PhasesTwoToFour)
        => writes = <<>>

\* The issued writes whose content is of the kind.
WritesOfKind(kind) == {i \in 1..Len(writes) : kind \in DOMAIN writes[i].content}

\* The issued writes of the legacy snippet.
SnippetWrites(snippet) == {i \in WritesOfKind("snippet") : writes[i].content.snippet = snippet}

\* The issued writes to build-manifest.json.
BuildManifestWrites ==
    {i \in WritesOfKind("json") :
        writes[i].path = FsPath("client", <<".", "n", "e", "x", "t", "/", "build-manifest.json">>)}

\* static/B/_ssgManifest.js
StaticSsgManifest(B) == <<"static", "/">> \o B \o <<"/", "_ssgManifest.js">>

\* static/B/_buildManifest.js
StaticBuildManifest(B) == <<"static", "/">> \o B \o <<"/", "_buildManifest.js">>

\* C7: with a legacy build context of build id B, the client manifest
\* snippet is written at static/B/_buildManifest.js and the SSG manifest
\* snippet at static/B/_ssgManifest.js (below the node root), both before any
\* manifest is written, and the build manifest written to build-manifest.json
\* has both relative paths in its low-priority files.
C7_LegacyManifestPaths ==
    buildPc # "idle" /\ buildOptions.build_context.some =>
        LET B == buildOptions.build_context.val.build_id
            dir == <<".", "n", "e", "x", "t", "/">>
        IN  /\ \A i \in SnippetWrites("__SSG_MANIFEST") :
                  writes[i].path = FsPath("node", dir \o StaticSsgManifest(B))
            /\ \A i \in SnippetWrites("__BUILD_MANIFEST") :
                  writes[i].path = FsPath("node", dir \o StaticBuildManifest(B))
            /\ WritesOfKind("json") # {} =>
                  /\ Cardinality(SnippetWrites("__SSG_MANIFEST")) = 1
                  /\ Cardinality(SnippetWrites("__BUILD_MANIFEST")) = 1
            /\ \A i \in BuildManifestWrites :
                  {StaticSsgManifest(B), StaticBuildManifest(B)} \subseteq
                      {writes[i].content.json.low_priority_files[n] :
                          n \in 1..Len(writes[i].content.json.low_priority_files)}

C7_Witness ==
    /\ buildPc = "done"
    /\ buildOptions.build_context = Some([build_id |-> <<"a", "b", "c", "1", "2", "3">>])
    /\ \E i \in SnippetWrites("__BUILD_MANIFEST") :
          writes[i].path.path = <<".", "n", "e", "x", "t", "/", "static", "/", "a", "b", "c", "1", "2", "3", "/", "_buildManifest.js">>
    /\ \E i \in BuildManifestWrites : writes[i].state = "ok"

\* C9: the completion of next_build resolves successfully only when every
\* issued manifest write and every issued asset write has resolved, and
\* never when one of them has failed.
C9_CompletionJoinsAllWrites ==
    buildPc = "done" => \A i \in 1..Len(writes) : writes[i].state = "ok"

C9_Witness ==
    /\ buildPc = "done"
    /\ WritesOfKind("json") # {}
    /\ WritesOfKind("snippet") # {}
    /\ WritesOfKind("asset") # {}

\* C11: a subscription to changed() after which one or more source changes
\* have occurred has been notified exactly once.
C11_ChangedNotifiesOnce ==
    \A n \in 1..Len(subscriptions) :
        sourceVersion > subscriptions[n].version => subscriptions[n].notifications = 1

DotNextSlash == <<".", "n", "e", "x", "t", "/">>

DotNextUnderscoreNextSlash == DotNextSlash \o <<"_", "n", "e", "x", "t", "/">>

\* C13: emit_all_assets gives every collected asset one completion: an
\* asset with its path inside the node output root is written to that same
\* path; otherwise an asset with its path inside client root/_next is written
\* to the client output root at its path without the _next prefix; any other
\* asset gets no write.
C13_EmissionPolicy ==
    assetsPc = "emitted" =>
        /\ Len(completions) = Len(allAssets)
        /\ \A i \in 1..Len(allAssets) :
              LET asset == allAssets[i]
                  path == AssetPath(asset)
              IN  IF path.fs = "node" /\ StartsWith(path.path, DotNextSlash)
                  THEN completions[i] = [kind |-> "write", asset |-> asset, to |-> path]
                  ELSE IF path.fs = "client" /\ StartsWith(path.path, DotNextUnderscoreNextSlash)
                  THEN completions[i] =
                          [kind |-> "write", asset |-> asset,
                           to |-> [fs |-> "client",
                                   path |-> DotNextSlash
                                              \o SubSeq(path.path,
                                                        Len(DotNextUnderscoreNextSlash) + 1,
                                                        Len(path.path))]]
                  ELSE completions[i].kind = "immutable"

C13_Witness ==
    /\ assetsPc = "emitted"
    /\ \E i, j, k \in 1..Len(allAssets) :
          /\ allAssets[i] = ServerJs /\ completions[i].to = AssetPath(ServerJs)
          /\ allAssets[j] = StyleCss
          /\ completions[j].to.path = DotNextSlash \o <<"style.css">>
          /\ allAssets[k] = ImagePng /\ completions[k].kind = "immutable"

\* The pathnames the routes hold as Route::Conflict.
ConflictKeys(m) == {m[i].key : i \in {n \in 1..Len(m) : m[n].value = RouteConflict}}

\* C14: a pathname that an app route and a page route share is no error:
\* entrypoints returns Ok with Route::Conflict at that pathname, the app
\* route at every other app pathname and the page route at every other page
\* pathname; entrypoints fails only at an await of the scan, before any
\* pathname has been merged.
C14_ConflictIsNoError ==
    /\ routesPc = "done" =>
          /\ entrypointsResult.outcome = "ok"
          /\ MapKeys(entrypointsResult.routes) = AppKeys \cup MapKeys(pagesRoutes)
          /\ \A k \in MapKeys(entrypointsResult.routes) :
                MapGet(entrypointsResult.routes, k) =
                    IF k \in AppKeys /\ k \in MapKeys(pagesRoutes) THEN RouteConflict
                    ELSE IF k \in AppKeys
                    THEN AppEntryPointToRoute(MapGet(appEntrypoints.val, k))
                    ELSE MapGet(pagesRoutes, k)
    /\ routesPc = "failed" =>
          /\ ConflictKeys(routes) = {}
          /\ mergeIdx = 1
    /\ ConflictKeys(routes) # {} => routesPc \in {"merge", "done"}

C14_Witness ==
    /\ routesPc = "done"
    /\ entrypointsResult.outcome = "ok"
    /\ ConflictKeys(entrypointsResult.routes) # {}
    /\ \E k \in AppKeys : MapGet(entrypointsResult.routes, k).kind = "AppPage"
    /\ \E k \in MapKeys(pagesRoutes) : MapGet(entrypointsResult.routes, k).kind = "Page"

\* The sources handle_issues has reported.
ReportedSources == {reported[i] : i \in 1..Len(reported)}

\* C15: when next_build fails in entry discovery on a fatal diagnostic, the
\* diagnostics of the page entries and those of the app entries have both
\* been reported.
C15_AllDiagnosticsReported ==
    (buildPc = "failed" /\ failedAt \in {"issues_pages", "issues_app"}) =>
        /\ buildOptions.page_issues # {} => "page_entries" \in ReportedSources
        /\ buildOptions.app_issues # {} => "app_entries" \in ReportedSources

\* The distinct reference types the server entries import.
ImportedTypes == UNION {crByEntry[i] : i \in 1..Len(crByEntry)}

\* C16: the reference types handed to compute_app_client_references_chunks
\* hold every type that some server entry imports once, however many entries
\* import it, and the map that is returned has one entry per distinct type.
C16_ReferencesDeduplicated ==
    /\ crPc \notin {"idle", "collect"} =>
          /\ {crTypes[i] : i \in 1..Len(crTypes)} = ImportedTypes
          /\ Len(crTypes) = Cardinality(ImportedTypes)
    /\ crPc = "done" =>
          /\ MapKeys(crResult.value) = ImportedTypes
          /\ Len(crResult.value) = Cardinality(ImportedTypes)

C16_Witness ==
    /\ crPc = "done"
    /\ Len(crByEntry) = 2
    /\ crByEntry[1] \cap crByEntry[2] # {}
    /\ crByEntry[1] # crByEntry[2]
    /\ Len(crResult.value) = 2

\* The phase of a position of next_build: Configuring is 1, Done is 7.
PhaseOf(pc) ==
    CASE pc = "configure" -> 1
      [] pc \in {"issues_pages", "issues_app"} -> 2
      [] pc = "extract" -> 3
      [] pc \in {"contexts", "chunk_pages", "chunk_client_refs", "chunk_app"} -> 4
      [] pc \in {"legacy", "legacy_client", "manifests"} -> 5
      [] pc \in {"emit", "return", "returned"} -> 6
      [] pc = "done" -> 7
      [] OTHER -> 0

\* The number of issued writes of the kind.
IssuedOfKind(ws, kind) == Cardinality({i \in 1..Len(ws) : kind \in DOMAIN ws[i].content})

\* C17: every step of next_build stays in its phase, goes to the next phase
\* or fails; all_chunks changes in the Chunking phase only, the manifests in
\* the Chunking and AssemblingManifests phases only, a manifest or snippet
\* write is issued in the AssemblingManifests phase only and an asset write
\* in the EmittingAssets phase only; once the build has failed it stays
\* failed and no chunk, manifest or write is added.
C17_PhaseOrder ==
    [][/\ buildPc \notin {"idle", "failed"} =>
             \/ buildPc' = "failed"
             \/ PhaseOf(buildPc') \in {PhaseOf(buildPc), PhaseOf(buildPc) + 1}
       /\ buildChunks' # buildChunks => PhaseOf(buildPc) = 4
       /\ manifests' # manifests => PhaseOf(buildPc) \in {4, 5}
       /\ (\/ IssuedOfKind(writes', "json") # IssuedOfKind(writes, "json")
           \/ IssuedOfKind(writes', "snippet") # IssuedOfKind(writes, "snippet"))
             => PhaseOf(buildPc) = 5
       /\ IssuedOfKind(writes', "asset") # IssuedOfKind(writes, "asset") => PhaseOf(buildPc) = 6
       /\ buildPc = "failed" =>
             /\ buildPc' = "failed"
             /\ buildChunks' = buildChunks
             /\ manifests' = manifests
             /\ Len(writes') = Len(writes)
             /\ buildCompletions' = buildCompletions]_vars

C17_Witness ==
    /\ buildPc = "failed"
    /\ failedAt = "manifests"
    /\ buildChunks # <<>>
    /\ IssuedOfKind(writes, "json") = 4
    /\ \A i \in 1..Len(writes) : writes[i].state = "ok"

\* One of the three chunk computations run on the accumulators st, the
\* computations of the set done having run before it: the app entries get
\* the map of the client reference chunks only if it has been computed.
ChunkComputation(name, st, done) ==
    CASE name = "pages" -> ComputePageEntriesChunks(st, buildOptions.pages)
      [] name = "client_refs" ->
            ComputeAppClientReferencesChunks(st, AppClientReferenceTypes(buildOptions.app))
      [] OTHER ->
            ComputeAppEntriesChunks(
                st, buildOptions.app,
                IF "client_refs" \in done
                THEN AppClientReferencesChunks(AppClientReferenceTypes(buildOptions.app))
                ELSE <<>>)

\* The accumulators after the three chunk computations run in the order.
ChunkingInOrder(order) ==
    LET st0 == [manifests |-> DefaultManifests, all_chunks |-> <<>>, writes |-> <<>>,
                completions |-> <<>>]
        st1 == ChunkComputation(order[1], st0, {})
        st2 == ChunkComputation(order[2], st1, {order[1]})
    IN  ChunkComputation(order[3], st2, {order[1], order[2]})

\* The entries of the four manifests, whatever their order.
ManifestEntries(mf) ==
    [pages |-> {mf.pages.pages[i] : i \in 1..Len(mf.pages.pages)},
     build |-> {mf.build.pages[i] : i \in 1..Len(mf.build.pages)},
     app_build |-> {mf.app_build.pages[i] : i \in 1..Len(mf.app_build.pages)},
     app_paths |-> {mf.app_paths.node_server_app_paths[i] :
                        i \in 1..Len(mf.app_paths.node_server_app_paths)}]

\* The assets emit_all_assets collects from the chunks.
EmissionSet(chunks) ==
    LET all_assets == AllAssetsFromEntries(chunks, BuildAssetRefs)
    IN  {all_assets[i] : i \in 1..Len(all_assets)}

\* The computations in the order give what next_build has.
SameChunkingOutputs(order) ==
    /\ ManifestEntries(ChunkingInOrder(order).manifests) = ManifestEntries(manifests)
    /\ EmissionSet(ChunkingInOrder(order).all_chunks) = EmissionSet(buildChunks)

ChunkingOrders == OrderedSubsets({"pages", "client_refs", "app"}, 3)

C20_TraversalTerminates ==
    /\ [](assetsPc # "idle" => \A a \in OutputAssets : traversal.visits[a] <= 1)
    /\ <>(assetsPc \in {"collected", "emitted", "failed"})

C20_Witness ==
    /\ assetsPc = "collected"
    /\ \E a, b \in traversal.visited :
          /\ a # b
          /\ \E n \in 1..Len(assetRefs[a]) : assetRefs[a][n] = b
          /\ \E n \in 1..Len(assetRefs[b]) : assetRefs[b][n] = a
    /\ \E a \in traversal.visited : \E n \in 1..Len(assetRefs[a]) : assetRefs[a][n] = a
    /\ \A a \in traversal.visited : traversal.visits[a] = 1

----------------------------------------------------------------------------
(* C21: the collected assets are the assets reachable from the roots *)

\* The assets an asset refers to.
ReferencedBy(refs, asset) ==
    IF asset \in DOMAIN refs THEN {refs[asset][i] : i \in 1..Len(refs[asset])} ELSE {}

RECURSIVE ReachableFrom(_, _)
\* The assets reachable from the set S through the references.
ReachableFrom(S, refs) ==
    LET next == S \cup UNION {ReferencedBy(refs, a) : a \in S}
    IN  IF next = S THEN S ELSE ReachableFrom(next, refs)

\* The assets reachable from the root chunks.
ReachableAssets ==
    ReachableFrom({entryChunks[i] : i \in 1..Len(entryChunks)}, assetRefs)

\* C21: whatever the order of the root chunks and the order in which the
\* visits resolve, all_assets_from_entries returns each asset reachable from
\* the roots, each once, and no other asset; emit_all_assets makes the
\* completions of exactly these assets.
C21_CollectedIsReachable ==
    /\ assetsPc \in {"collected", "emitted"} =>
          /\ {allAssets[i] : i \in 1..Len(allAssets)} = ReachableAssets
          /\ Len(allAssets) = Cardinality(ReachableAssets)
    /\ assetsPc = "emitted" =>
          {completions[i] : i \in 1..Len(completions)}
            = {EmitAsset(a, NodeRoot, ClientRelativePath, ClientRoot) : a \in ReachableAssets}

\* An asset is reached only through an asset that is not a root, and an
\* asset that has references is out of reach of the roots.
C21_Witness ==
    /\ assetsPc = "emitted"
    /\ \E a \in ReachableAssets :
          /\ \A i \in 1..Len(entryChunks) : a \notin ReferencedBy(assetRefs, entryChunks[i])
          /\ \A i \in 1..Len(entryChunks) : a # entryChunks[i]
    /\ \E a \in Assets \ ReachableAssets : assetRefs[a] # <<>>

----------------------------------------------------------------------------
(* C22: all_chunks after compute_app_client_references_chunks *)

\* The chunks of one entry of the returned map: the client chunks, then the
\* SSR chunks of an Ecmascript reference.
ChunksOfEntry(entry) ==
    entry.value.client_chunks
        \o (IF entry.key.kind = "EcmascriptClientReference"
            THEN entry.value.ssr_chunks ELSE <<>>)

RECURSIVE ChunksInMapOrder(_)
\* The chunks of every entry of the map, in the order of the map.
ChunksInMapOrder(m) ==
    IF m = <<>> THEN <<>> ELSE ChunksOfEntry(Head(m)) \o ChunksInMapOrder(Tail(m))

\* C22: all_chunks only ever grows at its end, and when
\* compute_app_client_references_chunks has returned Ok, all_chunks is what
\* the caller passed followed by the chunks of every entry of the returned
\* map, in the order of the map: per reference the client chunks, then the
\* SSR chunks.
C22_AllChunksExtended ==
    /\ [](crPc = "done" /\ crResult.outcome = "ok" =>
            \E before \in {<<>>, <<PageChunk>>} :
                allChunks = before \o ChunksInMapOrder(crResult.value))
    /\ [][IsPrefixOf(allChunks, allChunks')]_vars

\* The call was made with a page chunk in all_chunks and returned a map of
\* an Ecmascript reference with a shared library and a CSS reference.
C22_Witness ==
    /\ crPc = "done" /\ crResult.outcome = "ok"
    /\ allChunks # <<>> /\ Head(allChunks) = PageChunk
    /\ Len(crResult.value) >= 2
    /\ \E i \in 1..Len(crResult.value) :
          /\ crResult.value[i].key.kind = "EcmascriptClientReference"
          /\ Len(crResult.value[i].value.ssr_chunks) = 2
    /\ \E i \in 1..Len(crResult.value) : crResult.value[i].key.kind = "CssClientReference"

----------------------------------------------------------------------------
(* C23: each manifest is written once, after its last entry *)

\* The paths of the five placeholder manifests.
PlaceholderPaths ==
    {PlaceholderManifestPaths[i] : i \in 1..Len(PlaceholderManifestPaths)}

\* The paths of the four manifests that have an accumulator.
AccumulatorPaths ==
    {PagesManifestPath, AppBuildManifestPath, AppPathsManifestPath, BuildManifestPath}

\* The paths of the nine manifests.
ManifestPaths == AccumulatorPaths \cup PlaceholderPaths

\* The writes issued to a path.
WritesTo(ws, path) == {i \in 1..Len(ws) : ws[i].path = path}

\* The accumulator whose file is at the path.
AccumulatorAt(mf, path) ==
    CASE path = PagesManifestPath -> mf.pages
      [] path = AppBuildManifestPath -> mf.app_build
      [] path = AppPathsManifestPath -> mf.app_paths
      [] path = BuildManifestPath -> mf.build

\* No manifest file has been written twice, every write to the path of a
\* manifest is a serialized manifest, and what was written for an
\* accumulator is its content.
ManifestsWrittenAtMostOnce(ws, mf) ==
    /\ \A path \in ManifestPaths :
          /\ Cardinality(WritesTo(ws, path)) <= 1
          /\ \A i \in WritesTo(ws, path) : "json" \in DOMAIN ws[i].content
    /\ \A path \in AccumulatorPaths :
          \A i \in WritesTo(ws, path) : ws[i].content.json = AccumulatorAt(mf, path)
    /\ \A i \in 1..Len(ws) : "json" \in DOMAIN ws[i].content => ws[i].path \in ManifestPaths

\* C23: after every step of next_build no manifest file has been written
\* twice and what was written for an accumulator is its content; an
\* accumulator whose write has been issued is not modified by the step; and
\* when the build has succeeded each of the nine manifests has been written
\* once, to its own path.
C23_ManifestsWrittenOnce ==
    [][/\ ManifestsWrittenAtMostOnce(writes', manifests')
       /\ \A path \in AccumulatorPaths :
             WritesTo(writes, path) # {} =>
                AccumulatorAt(manifests', path) = AccumulatorAt(manifests, path)
       /\ buildPc' = "done" =>
             /\ Cardinality(ManifestPaths) = 9
             /\ \A path \in ManifestPaths : Cardinality(WritesTo(writes', path)) = 1]_vars

\* A successful build with a legacy build context, a page and an app route:
\* the four accumulators all have entries.
C23_Witness ==
    /\ buildPc = "done"
    /\ buildOptions.build_context.some
    /\ manifests.pages.pages # <<>>
    /\ manifests.app_build.pages # <<>>
    /\ manifests.app_paths.node_server_app_paths # <<>>
    /\ Len(manifests.build.low_priority_files) = 2

----------------------------------------------------------------------------
(* C24: the placeholder manifests *)

\* The default content of the placeholder manifests.
PlaceholderContents ==
    {[json |-> [middleware |-> <<>>]], [json |-> [next_font |-> <<>>]],
     [json |-> [font |-> <<>>]], [json |-> [server_reference |-> <<>>]],
     [json |-> [react_loadable |-> <<>>]]}

\* The five placeholder manifests have been written, each with a default
\* content.
PlaceholdersWritten ==
    /\ \A path \in PlaceholderPaths : WritesTo(writes, path) # {}
    /\ {writes[i].content : i \in UNION {WritesTo(writes, path) : path \in PlaceholderPaths}}
          = PlaceholderContents

\* The positions of manifest assembly.
AssemblyPositions == {"legacy", "legacy_client", "manifests"}

----------------------------------------------------------------------------
(* C25: the legacy client build manifest *)

\* The key of the _app page in the pages manifest.
AppPageKey == <<"/", "_app">>

\* The dependencies the pages manifest records for a page.
DependenciesOf(pages, page) == IF IndexOf(pages, page) # 0 THEN {MapGet(pages, page)} ELSE {}

\* C25: in the client build manifest that is written, the page list is the
\* pathnames of the pages manifest without the _app page, the dependency map
\* has no entry for the _app page, and the entry of any other page lists the
\* dependencies of the page that the _app page does not have.
C25_ClientManifestWithoutApp ==
    \A i \in SnippetWrites("__BUILD_MANIFEST") :
        LET client_manifest == writes[i].content.manifest
            pages == manifests.pages.pages
            listed == {client_manifest.sorted_pages[k] :
                          k \in 1..Len(client_manifest.sorted_pages)}
        IN  /\ listed = {pages[k].key : k \in 1..Len(pages)} \ {AppPageKey}
            /\ IndexOf(client_manifest.pages, AppPageKey) = 0
            /\ \A k \in 1..Len(client_manifest.pages) :
                  LET entry == client_manifest.pages[k]
                  IN  {entry.value[d] : d \in 1..Len(entry.value)}
                        = DependenciesOf(pages, entry.key)
                            \ DependenciesOf(pages, AppPageKey)

----------------------------------------------------------------------------
(* C27: the project path ProjectVc::new resolves *)

\* The segments of the directory the resolved project path denotes: those
\* of the root of the filesystem followed by those of the path inside it.
ResolvedProjectSegments ==
    AbsoluteSegments(options.root_path, separator).val
        \o NormalizeSegments(Split(projectResult.project_path, "/"), <<>>).val

\* C27: when ProjectVc::new accepts the options, the project path it
\* resolves lies in or below the root, and it is the directory the
\* configured project path names, ".." segments resolved.
C27_ProjectPathNestedAndNamed ==
    (projectPc = "done" /\ projectResult.outcome = "ok") =>
        /\ IsPrefixOf(AbsoluteSegments(options.root_path, separator).val,
                      ResolvedProjectSegments)
        /\ AbsoluteSegments(options.project_path, separator).some
        /\ ResolvedProjectSegments
              = AbsoluteSegments(options.project_path, separator).val

----------------------------------------------------------------------------
(* C29: what the merge of ProjectVc::entrypoints leaves alone *)

\* The pathnames of the leaves of the api and pages trees.
LeafPathnames == {LeafPathname(l) : l \in AllLeaves}

\* The route table returned: its keys are the app pathnames and the page
\* and api pathnames, each once; a pathname of one source only has the route
\* of that source; a Conflict is at a pathname of both sources.
MergedTable(m) ==
    /\ MapKeys(m) = AppKeys \cup LeafPathnames
    /\ Len(m) = Cardinality(AppKeys \cup LeafPathnames)
    /\ \A k \in AppKeys \ LeafPathnames :
          MapGet(m, k) = AppEntryPointToRoute(MapGet(appEntrypoints.val, k))
    /\ \A k \in LeafPathnames \ AppKeys : MapGet(m, k) = MapGet(pagesRoutes, k)
    /\ ConflictKeys(m) \subseteq AppKeys \cap LeafPathnames

\* One turn of the merge loop adds or replaces the entry of its pathname
\* and leaves every other entry as it was.
MergeTurnFrame ==
    (routesPc = "merge" /\ routes' # routes) =>
        LET pathname == pagesRoutes[mergeIdx].key
        IN  /\ MapKeys(routes') = MapKeys(routes) \cup {pathname}
            /\ \A k \in MapKeys(routes) \ {pathname} : MapGet(routes', k) = MapGet(routes, k)
            /\ pathname \notin MapKeys(routes) => MapGet(routes', pathname) # RouteConflict

\* C29: the table entrypoints returns has the union of the pathnames of the
\* two sources as its keys, each once, keeps the route of a pathname that
\* only one source defines, and has Conflict only where both define the
\* pathname; no turn of the merge loop touches the entry of another pathname.
C29_MergeKeepsOtherRoutes ==
    /\ [](routesPc = "done" => MergedTable(entrypointsResult.routes))
    /\ [][MergeTurnFrame]_vars

\* The table returned has a pathname of the app only, a pathname of the
\* pages only and a pathname of both.
C29_Witness ==
    /\ routesPc = "done"
    /\ AppKeys \ LeafPathnames # {}
    /\ LeafPathnames \ AppKeys # {}
    /\ ConflictKeys(entrypointsResult.routes) # {}
    /\ Len(entrypointsResult.routes) >= 3

----------------------------------------------------------------------------
(* C26: a failure in manifest assembly or asset emission *)

\* The writes that have been committed.
Committed(ws) == {i \in 1..Len(ws) : ws[i].state = "ok"}

\* A step keeps every committed write and the path and content of every
\* issued write; it does not end the build in success when a write has
\* failed, and it does not leave the failure of the build.
KeepsCommittedWrites ==
    /\ \A i \in Committed(writes) : i <= Len(writes') /\ writes'[i] = writes[i]
    /\ \A i \in 1..Len(writes) :
          /\ i <= Len(writes')
          /\ writes'[i].path = writes[i].path
          /\ writes'[i].content = writes[i].content
    /\ (\E i \in 1..Len(writes') : writes'[i].state = "failed") => buildPc' # "done"
    /\ buildPc = "failed" => buildPc' = "failed"

\* C26: a build does not succeed once a call of manifest assembly or asset
\* emission has returned an error or a write has failed, and no step, the
\* failure of the build included, takes away or changes a write that was
\* committed.
C26_FailureKeepsCommittedWrites == [][KeepsCommittedWrites]_vars

\* The build failed through a write that failed, with other writes
\* committed.
C26_Witness ==
    /\ buildPc = "failed"
    /\ failedAt = "returned"
    /\ Cardinality(Committed(writes)) >= 2
    /\ \E i \in 1..Len(writes) : writes[i].state = "failed"

----------------------------------------------------------------------------
(* C28: next_build ends *)

\* C28: under fair scheduling a next_build invocation ends as done or as
\* failed.
C28_BuildEnds == <>(buildPc \in {"done", "failed"})

\* A build with pages, an app route and a legacy build context is done
\* after all its writes were committed.
C28_Witness ==
    /\ buildPc = "done"
    /\ buildOptions.build_context.some
    /\ Len(buildOptions.pages) = 2 /\ buildOptions.app # <<>>
    /\ Len(writes) > 11
    /\ \A i \in 1..Len(writes) : writes[i].state = "ok"

====
